---------------------------- MODULE Spec2Model ----------------------------
(***************************************************************************)
(* AmbiType: the corpus streaming engine (src/src/lib/corpusLoader.js),     *)
(* its older text normalizer (src/unnamed/part_000), the App component's   *)
(* session start (src/src/App.jsx, src/unnamed/part_002) and the rolling   *)
(* WPM calculation (src/unnamed/part_002).                                 *)
(*                                                                         *)
(* The specifications of this module:                                      *)
(*   SpecStream     one CorpusSessionStream driven by nextChunk and        *)
(*                  ensureLength calls, one loop iteration per step;       *)
(*   SpecLoader     the module-level memo state (corpusIndexPromise,       *)
(*                  textCache), the promises it holds and the fetches in   *)
(*                  flight, under arbitrary loadCorpusIndex and            *)
(*                  loadBookText calls;                                    *)
(*   Spec           the same loader state under createCorpusSession calls; *)
(*   SpecNormalize  normalizeBookText applied to raw texts;                *)
(*   SpecPreload    the preload slot under arbitrary preloadCorpusSession  *)
(*                  and consumePreloadedCorpusSession calls;               *)
(*   SpecApp        startSession, the screens and the preload slot under   *)
(*                  the App component;                                     *)
(*   SpecWpm        calculateRollingWpmFromEvents applied to event lists.  *)
(* Each specification leaves the variables of the others as they start.    *)
(*                                                                         *)
(* Texts are sequences of one-character strings; offsets are the 0-based   *)
(* offsets of the JavaScript source, so text[offset] of the source is      *)
(* text[offset + 1] here.  The character sizes of the source (500, 4000,   *)
(* 12000, 24000) are scaled down (to 2, 2, 3, 4) so that texts of a few    *)
(* characters exercise the short-book, tail-guard and wrap cases.          *)
(***************************************************************************)
EXTENDS Integers, Sequences, FiniteSets, TLC

VARIABLES
    \* ---- one CorpusSessionStream and the call frames running on it ----
    bookText,       \* this.bookText
    cursor,         \* this.cursor
    pc,             \* position of the caller: "idle", "loop" (inside nextChunk's while)
    mode,           \* who called nextChunk: "next" (the consumer) or "ensure" (ensureLength)
    targetChars,    \* nextChunk's targetChars
    chunk,          \* nextChunk's local chunk
    minLength,      \* ensureLength's minLength
    currentText,    \* ensureLength's currentText argument
    next,           \* ensureLength's local next
    out,            \* the consumer's text: every returned string, concatenated
    lastChunk,      \* the string the latest nextChunk call returned
    requests,       \* history: nextChunk requests of the running/latest ensureLength
    received,       \* history: the chunks that ensureLength call got back, concatenated
    \* ---- module state of corpusLoader.js ----
    promises,             \* the promise objects created so far
    corpusIndexPromise,   \* 0 for null, else an index into promises
    textCache,            \* the Map: path -> 0 (absent) or an index into promises
    fetches,              \* history: how many times fetch() was called, per resource
    calls,                \* history: the loader calls made and the promise each got
    lastSettled,          \* history: the promise settled latest, and the response it got
    sessions,             \* createSessionPayload activations
    \* ---- one normalizeBookText caller (src/unnamed/part_000) ----
    rawBody,        \* the raw book text the caller starts from
    normText,       \* the caller's text: rawBody, then what normalizeBookText returned
    normPasses,     \* how many times the caller has applied normalizeBookText
    \* ---- the preload slot of corpusLoader.js and its callers ----
    builds,                   \* createSessionPayload activations, each with the promise
                              \* its caller holds (the activation's own, or its .catch())
    preloadedSessionPromise,  \* 0 for null, else an index into builds
    preloadedSessionChars,    \* preloadedSessionChars
    consumes,                 \* consumePreloadedCorpusSession activations
    preloads,                 \* history: the preloadCorpusSession calls made, the latest last
    \* ---- the App component (src/src/App.jsx, and its older form in part_002) ----
    appSource,                \* which form of App runs: "App.jsx" or "part_002"
    screen,                   \* the screen state: "landing", "typing", "summary"
    sessionLoadIdRef,         \* sessionLoadIdRef.current
    sessionStartInFlightRef,  \* sessionStartInFlightRef.current (App.jsx only)
    corpusStreamRef,          \* corpusStreamRef.current: 0 for null, else the build of the stream
    targetTextRef,            \* targetTextRef.current / targetText: [kind, from, len]
    elapsedRef,               \* elapsedRef.current / elapsedSeconds
    sessionRunId,             \* the sessionRunId state
    preloadTimer,             \* the landing screen's preload timeout is set (App.jsx only)
    sessionStarts,            \* startSession invocations
    \* ---- one calculateRollingWpmFromEvents caller (src/unnamed/part_002) ----
    typingEvents,   \* the events argument: [t, chars, correctChars] records
    clockNow,       \* the now argument
    rollingWindow,  \* the windowMs argument
    rolling,        \* what the call returned; called is FALSE before the call
    \* ---- one getRollingWpmDisplay caller (src/unnamed/part_002) ----
    firstTypedAt,     \* the firstTypedAt argument; 0 while nothing was typed
    totalTypedChars,  \* the totalTypedChars argument
    lastTypedAt,      \* the lastTypedAt argument; 0 while nothing was typed
    previousDisplay,  \* the previousDisplay argument: <<>> for null, <<n>> for n
    display,          \* what the call returned; called is FALSE before the call
    \* ---- one calculateAccuracy caller (src/unnamed/part_002) ----
    correctCharacters,  \* the correctCharacters argument
    totalCharacters,    \* the totalCharacters argument
    accuracy,           \* what the call returned: <<>> before the call, then <<n>>
    \* ---- one trimTypingEvents caller (src/unnamed/part_002) ----
    retentionMs,   \* the retentionMs argument
    eventsBefore,  \* the events list as it was when the call was made
    trimCalls,     \* trimTypingEvents calls made
    \* ---- one findSafeBoundary caller (src/src/lib/corpusLoader.js) ----
    snapText,    \* the text argument
    snapOffset,  \* the startOffset argument
    snapped,     \* what the call returned: <<>> before the call, then <<offset>>
    \* ---- one typing session of the App component (src/src/App.jsx) ----
    targetText,         \* targetTextRef.current / targetText, as characters
    cursorRef,          \* cursorRef.current / cursorIndex
    typedResultsRef,    \* typedResultsRef.current: TRUE, FALSE or "undefined" per position
    correctTypedChars,  \* statsRef.current.correctTypedChars
    totalWordsTyped,    \* statsRef.current.totalWordsTyped
    currentWordRef,     \* currentWordRef.current: [hasChars, hasMistake]
    liveWpm,            \* liveWpmRef.current / liveWpm: <<>> for null, <<n>> for n
    handlerRan,         \* history: the handler that ran last
    expectedFrom        \* history: where the last keystroke's expected character came from

streamVars == <<bookText, cursor, pc, mode, targetChars, chunk, minLength,
                currentText, next, out, lastChunk, requests, received>>
loaderVars ==
    <<promises, corpusIndexPromise, textCache, fetches, calls, lastSettled, sessions>>
normVars == <<rawBody, normText, normPasses>>
preloadVars ==
    <<builds, preloadedSessionPromise, preloadedSessionChars, consumes, preloads>>
appVars ==
    <<appSource, screen, sessionLoadIdRef, sessionStartInFlightRef, corpusStreamRef,
      targetTextRef, elapsedRef, sessionRunId, preloadTimer, sessionStarts>>
wpmVars == <<typingEvents, clockNow, rollingWindow, rolling>>
displayVars == <<firstTypedAt, totalTypedChars, lastTypedAt, previousDisplay, display>>
accuracyVars == <<correctCharacters, totalCharacters, accuracy>>
trimVars == <<retentionMs, eventsBefore, trimCalls>>
statsVars == <<displayVars, accuracyVars, trimVars>>
boundaryVars == <<snapText, snapOffset, snapped>>
typingVars == <<targetText, cursorRef, typedResultsRef, correctTypedChars,
                totalWordsTyped, currentWordRef, liveWpm, handlerRan, expectedFrom>>
callerVars == <<statsVars, boundaryVars, typingVars>>
extVars == <<normVars, preloadVars, appVars, wpmVars, callerVars>>
vars == <<streamVars, loaderVars, extVars>>

(***************************************************************************)
(* Program constants (scaled) and model bounds.                            *)
(***************************************************************************)
\* corpusLoader.js:3, 24000 in the source
DEFAULT_INITIAL_BUFFER_CHARS == 4
\* corpusLoader.js:4, 4000 in the source
DEFAULT_APPEND_CHUNK_CHARS == 2
\* corpusLoader.js:5, 12000 in the source
MIN_TAIL_GUARD_CHARS == 3
\* corpusLoader.js:110, the literal 500 in the source
MIN_BOOK_CHARS == 2

\* longest book text given to a stream
MaxTextLen == 6
\* the consumer stops asking once its text is this long
MaxOut == 6
\* longest raw book text a fetch delivers
MaxRawLen == 3
\* longest fetched index array
MaxIndexLen == 2
\* direct loadCorpusIndex / loadBookText calls
MaxCalls == 2
\* createCorpusSession calls
MaxSessions == 1

Max(a, b) == IF a >= b THEN a ELSE b
Min(a, b) == IF a <= b THEN a ELSE b

Chars == {"x", " "}

\* /\s/.test(c)
IsWhitespace(c) == c = " "

RECURSIVE SeqsUpTo(_, _)
SeqsUpTo(S, n) ==
    IF n = 0 THEN {<<>>}
    ELSE LET shorter == SeqsUpTo(S, n - 1)
         IN  shorter \cup {Append(s, c) : s \in {t \in shorter : Len(t) = n - 1}, c \in S}

(***************************************************************************)
(* Leaves: randomInt, findSafeBoundary, pickRandomStartOffset.             *)
(***************************************************************************)
\* Math.floor(Math.random() * maxExclusive): any integer of the range.
randomInt(maxExclusive) ==
    IF maxExclusive <= 0 THEN {0} ELSE 0 .. (maxExclusive - 1)

RECURSIVE SkipNonWhitespace(_, _)
SkipNonWhitespace(text, offset) ==
    IF offset < Len(text) /\ ~IsWhitespace(text[offset + 1])
    THEN SkipNonWhitespace(text, offset + 1)
    ELSE offset

\* Faulty variant: the whitespace behind the word is not skipped.
SkipWhitespaceNone(text, offset) == offset

RECURSIVE SkipWhitespace(_, _)
SkipWhitespace(text, offset) ==
    IF offset < Len(text) /\ IsWhitespace(text[offset + 1])
    THEN SkipWhitespace(text, offset + 1)
    ELSE offset

\* Faulty variant: the walk's result is returned even when it ran off the end.
findSafeBoundaryNoFallback(text, startOffset) ==
    IF text = <<>> THEN 0
    ELSE SkipWhitespace(text, SkipNonWhitespace(text,
                                Max(0, Min(startOffset, Len(text) - 1))))

findSafeBoundary(text, startOffset) ==
    IF text = <<>> THEN 0
    ELSE LET clamped == Max(0, Min(startOffset, Len(text) - 1))
             offset  == SkipWhitespace(text, SkipNonWhitespace(text, clamped))
         IN  IF offset < Len(text) THEN offset ELSE 0

\* Faulty variant: the rough offset is returned as it was drawn.
pickRandomStartOffsetRough(text) ==
    IF text = <<>> THEN {0}
    ELSE randomInt(Max(0, Len(text) - MIN_TAIL_GUARD_CHARS) + 1)

\* The set of offsets pickRandomStartOffset can return.
pickRandomStartOffset(text) ==
    IF text = <<>> THEN {0}
    ELSE LET maxOffset == Max(0, Len(text) - MIN_TAIL_GUARD_CHARS)
         IN  {findSafeBoundary(text, roughOffset) : roughOffset \in randomInt(maxOffset + 1)}

(***************************************************************************)
(* CorpusSessionStream.nextChunk, one iteration of its while loop.         *)
(* A chunk is a sequence of [c, src]: the character, and (history) the     *)
(* 1-based position of bookText it was copied from, 0 for an inserted      *)
(* separator.                                                              *)
(***************************************************************************)
Piece(text, from, len) ==
    [i \in 1 .. len |-> [c |-> text[from + i], src |-> from + i]]

Separator == [c |-> " ", src |-> 0]

\* The characters of a chunk, without the history.
Text(s) == [i \in 1 .. Len(s) |-> s[i].c]

\* Faulty variant: no separator is inserted at a wrap.
SeparatorNeededNever(ch) == FALSE

\* if (chunk && !/\s$/.test(chunk)) chunk += ' '
SeparatorNeeded(ch) == ch # <<>> /\ ~IsWhitespace(ch[Len(ch)].c)

\* Faulty variant: the loop has no defensive break.
NextChunkIterationNoBreak(text, cur, ch, target, start) ==
    LET wrap      == cur >= Len(text)
        cur1      == IF wrap THEN start ELSE cur
        ch1       == IF wrap /\ SeparatorNeeded(ch) THEN Append(ch, Separator) ELSE ch
        remaining == Max(0, Len(text) - cur1)
        needed    == target - Len(ch1)
        take      == Min(needed, remaining)
    IN  [cursor |-> cur1 + take, chunk |-> ch1 \o Piece(text, cur1, take),
         break |-> FALSE, wrapped |-> wrap]

\* Faulty variant: the cursor advances by the characters asked for, not by
\* the characters copied.
NextChunkIterationAdvanceNeeded(text, cur, ch, target, start) ==
    LET wrap      == cur >= Len(text)
        cur1      == IF wrap THEN start ELSE cur
        ch1       == IF wrap /\ SeparatorNeeded(ch) THEN Append(ch, Separator) ELSE ch
        remaining == Len(text) - cur1
        needed    == target - Len(ch1)
        take      == Min(needed, remaining)
    IN  IF remaining <= 0
        THEN [cursor |-> cur1, chunk |-> ch1, break |-> TRUE, wrapped |-> wrap]
        ELSE [cursor |-> cur1 + needed, chunk |-> ch1 \o Piece(text, cur1, take),
              break |-> FALSE, wrapped |-> wrap]

\* The state after one iteration that starts with the given cursor and chunk,
\* start being the offset pickRandomStartOffset returns if the iteration wraps.
NextChunkIteration(text, cur, ch, target, start) ==
    LET wrap      == cur >= Len(text)
        cur1      == IF wrap THEN start ELSE cur
        ch1       == IF wrap /\ SeparatorNeeded(ch) THEN Append(ch, Separator) ELSE ch
        remaining == Len(text) - cur1
        needed    == target - Len(ch1)
        take      == Min(needed, remaining)
    IN  IF remaining <= 0
        THEN [cursor |-> cur1, chunk |-> ch1, break |-> TRUE, wrapped |-> wrap]
        ELSE [cursor |-> cur1 + take, chunk |-> ch1 \o Piece(text, cur1, take),
              break |-> FALSE, wrapped |-> wrap]

\* Faulty variant: the default chunk size is not applied as a floor.
charsNeededNoFloor(min, nxt) == min - Len(nxt)

\* const charsNeeded = Math.max(DEFAULT_APPEND_CHUNK_CHARS, minLength - next.length)
charsNeeded(min, nxt) == Max(DEFAULT_APPEND_CHUNK_CHARS, min - Len(nxt))

\* next += this.nextChunk(charsNeeded)
appendChunk(nxt, ch) == nxt \o ch


(***************************************************************************)
(* SpecStream: a stream and its consumer.                                  *)
(***************************************************************************)
\* Book texts as loadBookText delivers them (trimmed), and the empty text,
\* which only nextChunk's defensive break handles.
StreamTexts ==
    {t \in SeqsUpTo(Chars, MaxTextLen) :
        t = <<>> \/ (~IsWhitespace(t[1]) /\ ~IsWhitespace(t[Len(t)]))}

NothingSettled == [id |-> 0, response |-> [ok |-> FALSE]]

\* No stream was constructed and none is running.
streamIdle ==
    /\ bookText = <<>>
    /\ cursor = 0
    /\ pc = "idle"
    /\ mode = "next"
    /\ targetChars = 0
    /\ chunk = <<>>
    /\ minLength = 0
    /\ currentText = <<>>
    /\ next = <<>>
    /\ out = <<>>
    /\ lastChunk = <<>>
    /\ requests = {}
    /\ received = <<>>

normIdle ==
    /\ rawBody = <<>>
    /\ normText = <<>>
    /\ normPasses = 0

\* let preloadedSessionPromise = null; let preloadedSessionChars = DEFAULT_...
preloadIdle ==
    /\ builds = <<>>
    /\ preloadedSessionPromise = 0
    /\ preloadedSessionChars = DEFAULT_INITIAL_BUFFER_CHARS
    /\ consumes = <<>>
    /\ preloads = <<>>

\* No App component is mounted.
appIdle ==
    /\ appSource = "none"
    /\ screen = "landing"
    /\ sessionLoadIdRef = 0
    /\ sessionStartInFlightRef = FALSE
    /\ corpusStreamRef = 0
    /\ targetTextRef = [kind |-> "fallback", from |-> 0, len |-> 0]
    /\ elapsedRef = 0
    /\ sessionRunId = 0
    /\ preloadTimer = FALSE
    /\ sessionStarts = <<>>

\* calculateRollingWpmFromEvents was not called.
wpmIdle ==
    /\ typingEvents = <<>>
    /\ clockNow = 0
    /\ rollingWindow = 0
    /\ rolling = [called |-> FALSE, rollingWpm |-> 0, rawWpm |-> 0,
                  hasEventsInWindow |-> FALSE]

\* getRollingWpmDisplay was not called.
displayIdle ==
    /\ firstTypedAt = 0
    /\ totalTypedChars = 0
    /\ lastTypedAt = 0
    /\ previousDisplay = <<>>
    /\ display = [called |-> FALSE, displayWpm |-> <<>>, rawWpm |-> 0]

\* calculateAccuracy was not called.
accuracyIdle ==
    /\ correctCharacters = 0
    /\ totalCharacters = 0
    /\ accuracy = <<>>

\* trimTypingEvents was not called.
trimIdle ==
    /\ retentionMs = 0
    /\ eventsBefore = <<>>
    /\ trimCalls = 0

statsIdle ==
    /\ displayIdle
    /\ accuracyIdle
    /\ trimIdle

\* findSafeBoundary was not called.
boundaryIdle ==
    /\ snapText = <<>>
    /\ snapOffset = 0
    /\ snapped = <<>>

\* No typing session is modelled.
typingIdle ==
    /\ targetText = <<>>
    /\ cursorRef = 0
    /\ typedResultsRef = <<>>
    /\ correctTypedChars = 0
    /\ totalWordsTyped = 0
    /\ currentWordRef = [hasChars |-> FALSE, hasMistake |-> FALSE]
    /\ liveWpm = <<>>
    /\ handlerRan = "none"
    /\ expectedFrom = "none"

callerIdle ==
    /\ statsIdle
    /\ boundaryIdle
    /\ typingIdle

extIdle ==
    /\ normIdle
    /\ preloadIdle
    /\ appIdle
    /\ wpmIdle
    /\ callerIdle

loaderIdle ==
    /\ promises = <<>>
    /\ corpusIndexPromise = 0
    /\ textCache = <<>>
    /\ fetches = <<>>
    /\ calls = {}
    /\ lastSettled = NothingSettled
    /\ sessions = <<>>

\* new CorpusSessionStream(bookEntry, bookText)
InitStream ==
    /\ bookText \in StreamTexts
    /\ cursor \in pickRandomStartOffset(bookText)
    /\ pc = "idle"
    /\ mode = "next"
    /\ targetChars = 0
    /\ chunk = <<>>
    /\ minLength = 0
    /\ currentText = <<>>
    /\ next = <<>>
    /\ out = <<>>
    /\ lastChunk = <<>>
    /\ requests = {}
    /\ received = <<>>
    /\ loaderIdle
    /\ extIdle

\* The consumer calls stream.nextChunk(t).
CallNextChunk ==
    /\ pc = "idle"
    /\ Len(out) < MaxOut
    /\ \E t \in 0 .. DEFAULT_APPEND_CHUNK_CHARS + 1 :
         /\ targetChars' = t
         /\ chunk' = <<>>
         /\ mode' = "next"
         /\ pc' = "loop"
    /\ UNCHANGED <<bookText, cursor, minLength, currentText, next, out, lastChunk,
                   requests, received, loaderVars, extVars>>

\* The consumer calls stream.ensureLength(out, m), passing back its text
\* (createInitialBuffer is the call with the empty text).  The call runs to
\* its first nextChunk call, or returns at once when the text is long enough.
CallEnsureLength ==
    /\ pc = "idle"
    /\ Len(out) < MaxOut
    /\ \E m \in 0 .. MaxOut :
         /\ minLength' = m
         /\ currentText' = out
         /\ next' = out
         /\ received' = <<>>
         /\ IF Len(out) < m
            THEN /\ targetChars' = charsNeeded(m, out)
                 /\ requests' = {[size |-> charsNeeded(m, out), have |-> Len(out)]}
                 /\ chunk' = <<>>
                 /\ mode' = "ensure"
                 /\ pc' = "loop"
            ELSE /\ requests' = {}
                 /\ UNCHANGED <<targetChars, chunk, mode, pc>>
    /\ UNCHANGED <<bookText, cursor, out, lastChunk, loaderVars, extVars>>

\* One iteration of nextChunk's while loop; a break leaves the loop with the
\* chunk short of its target.
NextChunkLoop ==
    /\ pc = "loop"
    /\ Len(chunk) < targetChars
    /\ \E start \in pickRandomStartOffset(bookText) :
         LET r == NextChunkIteration(bookText, cursor, chunk, targetChars, start)
         IN  /\ cursor' = r.cursor
             /\ chunk' = r.chunk
             /\ pc' = IF r.break THEN "break" ELSE "loop"
    /\ UNCHANGED <<bookText, mode, targetChars, minLength, currentText, next, out,
                   lastChunk, requests, received, loaderVars, extVars>>

\* return chunk, to the consumer.
NextChunkReturn ==
    /\ \/ pc = "loop" /\ Len(chunk) >= targetChars
       \/ pc = "break"
    /\ mode = "next"
    /\ lastChunk' = chunk
    /\ out' = out \o chunk
    /\ pc' = "idle"
    /\ UNCHANGED <<bookText, cursor, mode, targetChars, chunk, minLength, currentText,
                   next, requests, received, loaderVars, extVars>>

\* return chunk, to ensureLength: next += chunk, then its while test, which
\* calls nextChunk again or returns next to the consumer.
EnsureLengthResume ==
    /\ \/ pc = "loop" /\ Len(chunk) >= targetChars
       \/ pc = "break"
    /\ mode = "ensure"
    /\ lastChunk' = chunk
    /\ received' = received \o chunk
    /\ LET nxt == appendChunk(next, chunk)
       IN  /\ next' = nxt
           /\ IF Len(nxt) < minLength
              THEN /\ targetChars' = charsNeeded(minLength, nxt)
                   /\ requests' = requests \cup
                                    {[size |-> charsNeeded(minLength, nxt), have |-> Len(nxt)]}
                   /\ chunk' = <<>>
                   /\ pc' = "loop"
                   /\ UNCHANGED out
              ELSE /\ out' = nxt
                   /\ pc' = "idle"
                   /\ UNCHANGED <<targetChars, requests, chunk>>
    /\ UNCHANGED <<bookText, cursor, mode, minLength, currentText, loaderVars, extVars>>

NextStream ==
    \/ CallNextChunk
    \/ CallEnsureLength
    \/ NextChunkLoop
    \/ NextChunkReturn
    \/ EnsureLengthResume

SpecStream == InitStream /\ [][NextStream]_vars

(***************************************************************************)
(* The loader: paths, index entries, promises.                             *)
(*                                                                         *)
(* A path value is [isString, chars]: typeof pathValue === 'string' and    *)
(* the string's characters.  An index entry is [isObject, path]; isObject  *)
(* is FALSE for null.  A promise is [kind, state, value, error, found].    *)
(***************************************************************************)
BooksDir == <<"/", "c", "o", "r", "p", "u", "s", "/", "b", "o", "o", "k", "s", "/">>
TxtExt == <<".", "t", "x", "t">>
\* const CORPUS_INDEX_PATH = '/corpus/index.json'
CORPUS_INDEX_PATH ==
    <<"/", "c", "o", "r", "p", "u", "s", "/", "i", "n", "d", "e", "x", ".", "j", "s", "o", "n">>

\* the character class [a-z0-9-]
SlugChars ==
    {"a", "b", "c", "d", "e", "f", "g", "h", "i", "j", "k", "l", "m", "n", "o", "p", "q",
     "r", "s", "t", "u", "v", "w", "x", "y", "z",
     "0", "1", "2", "3", "4", "5", "6", "7", "8", "9", "-"}

\* CORPUS_BOOK_PATH_REGEX.test(chars): ^\/corpus\/books\/[a-z0-9-]+\.txt$
CORPUS_BOOK_PATH_REGEX(chars) ==
    LET n == Len(chars)
        a == Len(BooksDir)
        z == Len(TxtExt)
    IN  /\ n >= a + 1 + z
        /\ SubSeq(chars, 1, a) = BooksDir
        /\ SubSeq(chars, n - z + 1, n) = TxtExt
        /\ \A i \in a + 1 .. n - z : chars[i] \in SlugChars

\* Faulty variant: any non-empty string passes.
isValidCorpusBookPathAnyString(pathValue) ==
    pathValue.isString /\ Len(pathValue.chars) > 0

isValidCorpusBookPath(pathValue) ==
    pathValue.isString /\ CORPUS_BOOK_PATH_REGEX(pathValue.chars)

StringPath(chars) == [isString |-> TRUE, chars |-> chars]
\* entry.path of an entry without a path: undefined
NoPath == [isString |-> FALSE, chars |-> <<>>]
Entry(pathValue) == [isObject |-> TRUE, path |-> pathValue]
NullEntry == [isObject |-> FALSE, path |-> NoPath]

PathA == StringPath(BooksDir \o <<"a">> \o TxtExt)
PathB == StringPath(BooksDir \o <<"b", "-", "2">> \o TxtExt)
\* not matched: an upper-case slug
PathUpper == StringPath(BooksDir \o <<"A">> \o TxtExt)

\* The entries a fetched index may hold: two books, a path the pattern does
\* not match, an entry without a path, and null.
EntryPool == {Entry(PathA), Entry(PathB), Entry(PathUpper), Entry(NoPath), NullEntry}
\* The entries a caller may pass to loadBookText.
CallerEntries == {Entry(PathA), Entry(PathB), Entry(PathUpper), Entry(StringPath(<<>>)), NullEntry}

\* !entry?.path : null entry, undefined path, or the empty string
PathMissing(entry) ==
    \/ ~entry.isObject
    \/ ~entry.path.isString
    \/ entry.path.chars = <<>>

RECURSIVE TrimStart(_)
TrimStart(t) ==
    IF t # <<>> /\ IsWhitespace(Head(t)) THEN TrimStart(Tail(t)) ELSE t

RECURSIVE TrimEnd(_)
TrimEnd(t) ==
    IF t # <<>> /\ IsWhitespace(t[Len(t)]) THEN TrimEnd(SubSeq(t, 1, Len(t) - 1)) ELSE t

\* String(rawText || '').trim()
sanitizeLoadedText(rawText) == TrimEnd(TrimStart(rawText))

Pending(kind) ==
    [kind |-> kind, state |-> "pending", value |-> <<>>, error |-> "none"]
Fulfilled(kind, value) ==
    [kind |-> kind, state |-> "fulfilled", value |-> value, error |-> "none"]
Rejected(kind, error) ==
    [kind |-> kind, state |-> "rejected", value |-> <<>>, error |-> error]

\* fetch(resource): the fetch counts with this one added.
Fetched(fs, resource) ==
    IF resource \in DOMAIN fs
    THEN [fs EXCEPT ![resource] = @ + 1]
    ELSE (resource :> 1) @@ fs

FetchCount(resource) == IF resource \in DOMAIN fetches THEN fetches[resource] ELSE 0

\* The promise of an async function that threw before its first await: a
\* fresh rejected promise, shared with nobody.
Thrown == 0

PromiseState(id) == IF id = Thrown THEN "rejected" ELSE promises[id].state

\* Faulty variant: the memo is never consulted.
IndexMemoEmptyAlways(memo) == TRUE

\* if (!corpusIndexPromise)
IndexMemoEmpty(memo) == memo = 0

\* loadCorpusIndex(), up to its return: the state it leaves and the promise
\* it returns.
loadCorpusIndex(ps, memo, fs) ==
    IF IndexMemoEmpty(memo)
    THEN [promises |-> Append(ps, Pending("index")),
          corpusIndexPromise |-> Len(ps) + 1,
          fetches |-> Fetched(fs, StringPath(CORPUS_INDEX_PATH)),
          found |-> "absent",
          result |-> Len(ps) + 1]
    ELSE [promises |-> ps, corpusIndexPromise |-> memo, fetches |-> fs,
          found |-> ps[memo].state,
          result |-> memo]

\* index.filter((entry) => entry && isValidCorpusBookPath(entry.path))
validEntries(items) ==
    SelectSeq(items, LAMBDA entry : entry.isObject /\ isValidCorpusBookPath(entry.path))

\* The two .then callbacks of loadCorpusIndex on a response
\* [ok, isArray, items]: the promise as settled.
IndexSettled(response) ==
    IF ~response.ok THEN Rejected("index", "Failed to fetch corpus index")
    ELSE IF ~response.isArray \/ Len(response.items) = 0
    THEN Rejected("index", "Corpus index is empty or invalid.")
    ELSE IF Len(validEntries(response.items)) = 0
    THEN Rejected("index", "Corpus index contains no valid entries.")
    ELSE Fulfilled("index", validEntries(response.items))

\* Faulty variant: a text of exactly the minimum length is refused too.
TooShortInclusive(text) == Len(text) <= MIN_BOOK_CHARS

\* if (text.length < 500)
TooShort(text) == Len(text) < MIN_BOOK_CHARS

\* fetchText's response check and the .then callback of loadBookText on a
\* response [ok, text]: the promise as settled.
BookSettled(response) ==
    IF ~response.ok THEN Rejected("book", "Failed to fetch")
    ELSE IF TooShort(sanitizeLoadedText(response.text))
    THEN Rejected("book", "Corpus book is too short")
    ELSE Fulfilled("book", sanitizeLoadedText(response.text))

\* Faulty variant: the cache is never consulted.
textCacheHasNever(cache, pathValue) == FALSE

\* textCache.has(path)
textCacheHas(cache, pathValue) == pathValue \in DOMAIN cache

\* loadBookText(entry), up to its return.  fetchText's own path check
\* rejects without a fetch; loadBookText never passes it a path that fails.
loadBookText(entry, ps, cache, fs) ==
    IF PathMissing(entry) \/ ~isValidCorpusBookPath(entry.path)
    THEN [promises |-> ps, textCache |-> cache, fetches |-> fs,
          found |-> "invalid",
          result |-> Thrown]
    ELSE IF ~textCacheHas(cache, entry.path)
    THEN [promises |-> Append(ps, IF isValidCorpusBookPath(entry.path)
                                  THEN Pending("book")
                                  ELSE Rejected("book", "Rejected unexpected corpus path")),
          textCache |-> (entry.path :> Len(ps) + 1) @@ cache,
          fetches |-> IF isValidCorpusBookPath(entry.path)
                      THEN Fetched(fs, entry.path) ELSE fs,
          found |-> "absent",
          result |-> Len(ps) + 1]
    ELSE [promises |-> ps, textCache |-> cache, fetches |-> fs,
          found |-> ps[cache[entry.path]].state,
          result |-> cache[entry.path]]

\* index[randomInt(index.length)]
pickRandomBookEntry(index) == {index[i + 1] : i \in randomInt(Len(index))}

(***************************************************************************)
(* Whole runs of nextChunk and ensureLength, for callers that run them     *)
(* without suspending: the set of results the random wraps allow.          *)
(***************************************************************************)
RECURSIVE nextChunk(_, _, _, _)
nextChunk(text, cur, ch, target) ==
    IF Len(ch) >= target
    THEN {[cursor |-> cur, chunk |-> ch]}
    ELSE UNION {LET r == NextChunkIteration(text, cur, ch, target, start)
                IN  IF r.break
                    THEN {[cursor |-> r.cursor, chunk |-> r.chunk]}
                    ELSE nextChunk(text, r.cursor, r.chunk, target)
                : start \in pickRandomStartOffset(text)}

RECURSIVE ensureLength(_, _, _, _)
ensureLength(text, cur, nxt, min) ==
    IF Len(nxt) >= min
    THEN {[cursor |-> cur, text |-> nxt]}
    ELSE UNION {ensureLength(text, r.cursor, appendChunk(nxt, r.chunk), min)
                : r \in nextChunk(text, cur, <<>>, charsNeeded(min, nxt))}

\* Faulty variant: the default size is used whatever minLength is passed.
createInitialBufferDefault(text, cur, min) ==
    ensureLength(text, cur, <<>>, DEFAULT_INITIAL_BUFFER_CHARS)

\* createInitialBuffer(minLength) { return this.ensureLength('', minLength) }
createInitialBuffer(text, cur, min) == ensureLength(text, cur, <<>>, min)

(***************************************************************************)
(* Spec: the loader's exported functions, the fetches and the sessions.    *)
(***************************************************************************)
RawTexts == SeqsUpTo(Chars, MaxRawLen)

IndexResponses ==
    {[ok |-> FALSE, isArray |-> FALSE, items |-> <<>>],
     [ok |-> TRUE, isArray |-> FALSE, items |-> <<>>]}
        \cup {[ok |-> TRUE, isArray |-> TRUE, items |-> items] :
                items \in SeqsUpTo(EntryPool, MaxIndexLen)}

BookResponses ==
    {[ok |-> FALSE, text |-> <<>>]} \cup {[ok |-> TRUE, text |-> t] : t \in RawTexts}

InitialCharsChoices == {DEFAULT_INITIAL_BUFFER_CHARS, DEFAULT_INITIAL_BUFFER_CHARS + 1}

NoStream == [bookText |-> <<>>, cursor |-> 0]

Call(fn, entry, r) ==
    [fn |-> fn, entry |-> entry, found |-> r.found, promise |-> r.result]

Init ==
    /\ promises = <<>>
    /\ corpusIndexPromise = 0
    /\ textCache = <<>>
    /\ fetches = <<>>
    /\ calls = {}
    /\ lastSettled = NothingSettled
    /\ sessions = <<>>
    /\ bookText = <<>>
    /\ cursor = 0
    /\ pc = "idle"
    /\ mode = "next"
    /\ targetChars = 0
    /\ chunk = <<>>
    /\ minLength = 0
    /\ currentText = <<>>
    /\ next = <<>>
    /\ out = <<>>
    /\ lastChunk = <<>>
    /\ requests = {}
    /\ received = <<>>
    /\ extIdle

\* A caller calls loadCorpusIndex().
LoadCorpusIndex ==
    /\ Cardinality(calls) < MaxCalls
    /\ LET r == loadCorpusIndex(promises, corpusIndexPromise, fetches)
       IN  /\ promises' = r.promises
           /\ corpusIndexPromise' = r.corpusIndexPromise
           /\ fetches' = r.fetches
           /\ calls' = calls \cup {Call("loadCorpusIndex", NullEntry, r)}
    /\ UNCHANGED <<textCache, lastSettled, sessions, streamVars, extVars>>

\* A caller calls loadBookText(entry).
LoadBookText ==
    /\ Cardinality(calls) < MaxCalls
    /\ \E entry \in CallerEntries :
         LET r == loadBookText(entry, promises, textCache, fetches)
         IN  /\ promises' = r.promises
             /\ textCache' = r.textCache
             /\ fetches' = r.fetches
             /\ calls' = calls \cup {Call("loadBookText", entry, r)}
    /\ UNCHANGED <<corpusIndexPromise, lastSettled, sessions, streamVars, extVars>>

\* The index fetch completes and the .then chain settles the promise.
IndexFetchSettles ==
    /\ \E id \in DOMAIN promises, response \in IndexResponses :
         /\ promises[id].kind = "index"
         /\ promises[id].state = "pending"
         /\ promises' = [promises EXCEPT ![id] = IndexSettled(response)]
         /\ lastSettled' = [id |-> id, response |-> response]
    /\ UNCHANGED <<corpusIndexPromise, textCache, fetches, calls, sessions, streamVars, extVars>>

\* A book fetch completes and the .then chain settles the promise.
BookFetchSettles ==
    /\ \E id \in DOMAIN promises, response \in BookResponses :
         /\ promises[id].kind = "book"
         /\ promises[id].state = "pending"
         /\ promises' = [promises EXCEPT ![id] = BookSettled(response)]
         /\ lastSettled' = [id |-> id, response |-> response]
    /\ UNCHANGED <<corpusIndexPromise, textCache, fetches, calls, sessions, streamVars, extVars>>

\* createCorpusSession({initialChars}): createSessionPayload runs to its
\* first await, on loadCorpusIndex().
CreateCorpusSession ==
    /\ Len(sessions) < MaxSessions
    /\ \E n \in InitialCharsChoices :
         LET r == loadCorpusIndex(promises, corpusIndexPromise, fetches)
         IN  /\ promises' = r.promises
             /\ corpusIndexPromise' = r.corpusIndexPromise
             /\ fetches' = r.fetches
             /\ sessions' = Append(sessions,
                              [pc |-> "awaitIndex", initialChars |-> n,
                               indexPromise |-> r.result,
                               entry |-> NullEntry, bookPromise |-> 0,
                               stream |-> NoStream, initialText |-> <<>>])
    /\ UNCHANGED <<textCache, calls, lastSettled, streamVars, extVars>>

\* createSessionPayload resumes after await loadCorpusIndex(): it rejects
\* with the index's error, or picks an entry and awaits loadBookText(entry).
SessionIndexLoaded ==
    /\ \E k \in DOMAIN sessions :
         /\ sessions[k].pc = "awaitIndex"
         /\ promises[sessions[k].indexPromise].state # "pending"
         /\ IF promises[sessions[k].indexPromise].state = "rejected"
            THEN /\ sessions' = [sessions EXCEPT ![k].pc = "rejected"]
                 /\ UNCHANGED <<promises, textCache, fetches>>
            ELSE \E entry \in pickRandomBookEntry(promises[sessions[k].indexPromise].value) :
                   LET r == loadBookText(entry, promises, textCache, fetches)
                   IN  /\ promises' = r.promises
                       /\ textCache' = r.textCache
                       /\ fetches' = r.fetches
                       /\ sessions' = [sessions EXCEPT
                                         ![k].pc = "awaitBook",
                                         ![k].entry = entry,
                                         ![k].bookPromise = r.result]
    /\ UNCHANGED <<corpusIndexPromise, calls, lastSettled, streamVars, extVars>>

\* createSessionPayload resumes after await loadBookText(entry): it rejects
\* with the book's error, or builds the stream and its initial buffer and
\* resolves with {entry, stream, initialText}.
SessionBookLoaded ==
    /\ \E k \in DOMAIN sessions :
         /\ sessions[k].pc = "awaitBook"
         /\ PromiseState(sessions[k].bookPromise) # "pending"
         /\ IF PromiseState(sessions[k].bookPromise) = "rejected"
            THEN sessions' = [sessions EXCEPT ![k].pc = "rejected"]
            ELSE LET text == promises[sessions[k].bookPromise].value
                 IN  \E start \in pickRandomStartOffset(text) :
                     \E r \in createInitialBuffer(text, start, sessions[k].initialChars) :
                        sessions' = [sessions EXCEPT
                                       ![k].pc = "resolved",
                                       ![k].stream = [bookText |-> text, cursor |-> r.cursor],
                                       ![k].initialText = Text(r.text)]
    /\ UNCHANGED <<promises, corpusIndexPromise, textCache, fetches, calls, lastSettled,
                   streamVars, extVars>>

\* The exported loader functions under arbitrary callers.
NextLoader ==
    \/ LoadCorpusIndex
    \/ LoadBookText
    \/ IndexFetchSettles
    \/ BookFetchSettles

SpecLoader == Init /\ [][NextLoader]_vars

\* Sessions, which are the loader's callers in the application.
Next ==
    \/ CreateCorpusSession
    \/ SessionIndexLoaded
    \/ SessionBookLoaded
    \/ IndexFetchSettles
    \/ BookFetchSettles

Spec == Init /\ [][Next]_vars

(***************************************************************************)
(* Claims about the stream, checked under SpecStream.                      *)
(***************************************************************************)
IsPrefix(s, t) == Len(s) <= Len(t) /\ SubSeq(t, 1, Len(s)) = s

\* Positions of s where the last character of bookText is followed by more text.
Seams(s) == {i \in 1 .. Len(s) - 1 : s[i].src = Len(bookText)}

\* C1: over a non-empty book text that does not end in whitespace, in the
\* concatenation of the returned strings the last character of bookText is
\* never directly followed by text copied after a wrap: a whitespace
\* character comes first, wherever the calls end.
C1_WrapSeamSeparated ==
    (bookText # <<>> /\ ~IsWhitespace(bookText[Len(bookText)]))
        => \A i \in Seams(out) : IsWhitespace(out[i + 1].c)

\* C2: over a non-empty book text, every nextChunk(targetChars) call that has
\* returned gave back at least targetChars characters (so a non-empty string
\* when targetChars >= 1), whatever calls and wraps came before.
C2_NeverStalls ==
    (pc = "idle" /\ bookText # <<>>)
        => /\ Len(lastChunk) >= targetChars
           /\ targetChars >= 1 => lastChunk # <<>>

\* C2 witness: a call for at least one character has returned after earlier
\* calls, and the text handed out so far already went through two wraps.
C2_Witness ==
    /\ pc = "idle"
    /\ bookText # <<>>
    /\ targetChars >= 1
    /\ Len(lastChunk) >= targetChars
    /\ Len(out) > Len(lastChunk)
    /\ Cardinality(Seams(out)) >= 2

\* C3: over a non-empty book text, ensureLength(currentText, minLength)
\* returns a text that starts with currentText and has at least minLength
\* characters; what it appended is exactly the chunks nextChunk gave it, each
\* asked for with max(DEFAULT_APPEND_CHUNK_CHARS, minLength - length so far).
C3_EnsureLength ==
    (pc = "idle" /\ bookText # <<>>)
        => /\ IsPrefix(currentText, next)
           /\ Len(next) >= minLength
           /\ next = currentText \o received
           /\ \A r \in requests :
                r.size = Max(DEFAULT_APPEND_CHUNK_CHARS, minLength - r.have)

\* C3 witness: an ensureLength call on a non-empty earlier text has returned
\* a longer text, and the default chunk size decided the request.
C3_Witness ==
    /\ pc = "idle"
    /\ bookText # <<>>
    /\ currentText # <<>>
    /\ Len(next) > Len(currentText)
    /\ Len(next) >= minLength
    /\ \E r \in requests : r.size > minLength - r.have

(***************************************************************************)
(* Claims about sessions, checked under Spec.                              *)
(***************************************************************************)
\* The fetched index, filtered: what the session's index promise resolved to.
SessionIndex(k) == promises[sessions[k].indexPromise].value

\* C4: a createCorpusSession({initialChars}) call whose index resolved to a
\* single valid entry and whose book loaded with fewer than initialChars
\* characters resolves (it does not reject), with that sole entry as entry
\* and an initialText of at least initialChars characters.
C4_EndToEnd ==
    \A k \in DOMAIN sessions :
        (/\ sessions[k].pc \in {"resolved", "rejected"}
         /\ PromiseState(sessions[k].indexPromise) = "fulfilled"
         /\ Len(SessionIndex(k)) = 1
         /\ PromiseState(sessions[k].bookPromise) = "fulfilled"
         /\ Len(promises[sessions[k].bookPromise].value) < sessions[k].initialChars)
            => /\ sessions[k].pc = "resolved"
               /\ sessions[k].entry = SessionIndex(k)[1]
               /\ Len(sessions[k].initialText) >= sessions[k].initialChars

\* C4 witness: a session over a one-entry index has resolved with a text
\* longer than its book, asked for more than the default buffer size.
C4_Witness ==
    \E k \in DOMAIN sessions :
        /\ sessions[k].pc = "resolved"
        /\ Len(SessionIndex(k)) = 1
        /\ sessions[k].entry = SessionIndex(k)[1]
        /\ sessions[k].initialChars > DEFAULT_INITIAL_BUFFER_CHARS
        /\ Len(sessions[k].stream.bookText) < sessions[k].initialChars
        /\ Len(sessions[k].initialText) >= sessions[k].initialChars

(***************************************************************************)
(* Claims about the loader, checked under SpecLoader.                      *)
(***************************************************************************)
BookCalls == {c \in calls : c.fn = "loadBookText" /\ c.found # "invalid"}
IndexCalls == {c \in calls : c.fn = "loadCorpusIndex"}

\* C5: however loadBookText calls for one path interleave with its fetch,
\* that path is fetched exactly once, and all the calls get the same promise,
\* the one the cache holds, hence the same text.
C5_SingleFlightBook ==
    /\ \A c \in BookCalls :
         /\ FetchCount(c.entry.path) = 1
         /\ c.entry.path \in DOMAIN textCache
         /\ c.promise = textCache[c.entry.path]
    /\ \A c, d \in BookCalls : c.entry = d.entry => c.promise = d.promise

\* C5 witness: a second call for a path came while its fetch was in flight,
\* and the one promise both calls hold has since resolved with the text.
C5_Witness ==
    \E c, d \in BookCalls :
        /\ c.entry = d.entry
        /\ c.found = "absent"
        /\ d.found = "pending"
        /\ c.promise = d.promise
        /\ promises[c.promise].state = "fulfilled"
        /\ FetchCount(c.entry.path) = 1

\* C6: however loadCorpusIndex calls interleave with the index fetch, the
\* index is fetched exactly once and every call gets the memoized promise,
\* hence the same entry list.
C6_SingleFlightIndex ==
    /\ FetchCount(StringPath(CORPUS_INDEX_PATH)) <= 1
    /\ \A c \in IndexCalls :
         /\ FetchCount(StringPath(CORPUS_INDEX_PATH)) = 1
         /\ c.promise = corpusIndexPromise

\* C6 witness: a call made after the index had loaded got the promise of the
\* call that started the fetch, with the entry list in it.
C6_Witness ==
    \E c, d \in IndexCalls :
        /\ c.found = "absent"
        /\ d.found = "fulfilled"
        /\ c.promise = d.promise
        /\ promises[c.promise].state = "fulfilled"
        /\ Len(promises[c.promise].value) >= 1
        /\ FetchCount(StringPath(CORPUS_INDEX_PATH)) = 1

\* C7: an index load failure is not retained: the memo never holds a
\* rejected promise, so the next loadCorpusIndex call fetches again.
C7_IndexFailureNotRetained ==
    /\ corpusIndexPromise # 0 => promises[corpusIndexPromise].state # "rejected"
    /\ \A c \in IndexCalls : c.found # "rejected"

\* C8: a failed book load is never cached: the cache never maps a path to a
\* rejected promise, so the next loadBookText call for it fetches again.
C8_BookFailureNotCached ==
    /\ \A path \in DOMAIN textCache : promises[textCache[path]].state # "rejected"
    /\ \A c \in BookCalls : c.found # "rejected"

\* The book promise settled latest, and the text its fetch delivered.
BookJustSettled ==
    /\ lastSettled.id # 0
    /\ promises[lastSettled.id].kind = "book"
    /\ lastSettled.response.ok

\* C9: when a book fetch delivers a text, loadBookText rejects with the
\* 'too short' error if the trimmed text has fewer than MIN_BOOK_CHARS (500)
\* characters and resolves with the trimmed text if it has that many or
\* more.
C9_LengthFloor ==
    BookJustSettled =>
        LET text == sanitizeLoadedText(lastSettled.response.text)
            p    == promises[lastSettled.id]
        IN  /\ Len(text) < MIN_BOOK_CHARS
                => p.state = "rejected" /\ p.error = "Corpus book is too short"
            /\ Len(text) >= MIN_BOOK_CHARS
                => p.state = "fulfilled" /\ p.value = text

\* C9 witness: a raw text that trims to exactly MIN_BOOK_CHARS characters
\* was accepted.
C9_Witness ==
    /\ BookJustSettled
    /\ Len(lastSettled.response.text) > MIN_BOOK_CHARS
    /\ Len(sanitizeLoadedText(lastSettled.response.text)) = MIN_BOOK_CHARS
    /\ promises[lastSettled.id].state = "fulfilled"

\* The index promise settled latest, on a response that parsed.
IndexJustSettled ==
    /\ lastSettled.id # 0
    /\ promises[lastSettled.id].kind = "index"
    /\ lastSettled.response.ok

\* The entries of the pool with a path of the corpus-book shape.
WellFormed(entry) == entry \in {Entry(PathA), Entry(PathB)}

MaxNormLen == 4

CR == "CR"          \* \r
LF == "LF"          \* \n
TAB == "TAB"        \* \t
FF == "FF"          \* \f: whitespace that no character class of the chain names
ZWSP == "ZWSP"      \* U+200B, of ZERO_WIDTH_REGEX
NBSP == "NBSP"      \* U+00A0, of UNICODE_SPACES_REGEX
LDQUO == "LDQUO"    \* U+201C, of SMART_DOUBLE_QUOTES_REGEX
RSQUO == "RSQUO"    \* U+2019, of SMART_SINGLE_QUOTES_REGEX
EMDASH == "EMDASH"  \* U+2014, of SMART_DASHES_REGEX

RawChars == {CR, LF, TAB, " ", FF, ZWSP, NBSP, LDQUO, RSQUO, EMDASH, "x"}

ZERO_WIDTH_REGEX(c) == c = ZWSP
UNICODE_SPACES_REGEX(c) == c = NBSP
SMART_DOUBLE_QUOTES_REGEX(c) == c = LDQUO
SMART_SINGLE_QUOTES_REGEX(c) == c = RSQUO
SMART_DASHES_REGEX(c) == c = EMDASH

\* \s of a JavaScript regular expression, and the characters trim() strips.
RegexWhitespace(c) == c \in {CR, LF, TAB, " ", FF, NBSP}

\* .replace(/\r\n/g, '\n')
RECURSIVE ReplaceCrLf(_)
ReplaceCrLf(text) ==
    IF text = <<>> THEN <<>>
    ELSE IF Len(text) >= 2 /\ text[1] = CR /\ text[2] = LF
         THEN <<LF>> \o ReplaceCrLf(SubSeq(text, 3, Len(text)))
         ELSE <<text[1]>> \o ReplaceCrLf(Tail(text))

\* .replace(ZERO_WIDTH_REGEX, '')
RemoveZeroWidth(text) == SelectSeq(text, LAMBDA c : ~ZERO_WIDTH_REGEX(c))

\* .replace(UNICODE_SPACES_REGEX, ' ')
ReplaceUnicodeSpaces(text) ==
    [i \in 1 .. Len(text) |-> IF UNICODE_SPACES_REGEX(text[i]) THEN " " ELSE text[i]]

\* .replace(SMART_DOUBLE_QUOTES_REGEX, '"')
ReplaceSmartDoubleQuotes(text) ==
    [i \in 1 .. Len(text) |-> IF SMART_DOUBLE_QUOTES_REGEX(text[i]) THEN "\"" ELSE text[i]]

\* .replace(SMART_SINGLE_QUOTES_REGEX, "'")
ReplaceSmartSingleQuotes(text) ==
    [i \in 1 .. Len(text) |-> IF SMART_SINGLE_QUOTES_REGEX(text[i]) THEN "'" ELSE text[i]]

\* .replace(SMART_DASHES_REGEX, '-')
ReplaceSmartDashes(text) ==
    [i \in 1 .. Len(text) |-> IF SMART_DASHES_REGEX(text[i]) THEN "-" ELSE text[i]]

\* How many whitespace characters text starts with.
RECURSIVE WhitespaceRunLength(_)
WhitespaceRunLength(text) ==
    IF text = <<>> \/ ~RegexWhitespace(text[1]) THEN 0
    ELSE 1 + WhitespaceRunLength(Tail(text))

\* .replace(/\s*\n+\s*/g, ' ').  At an offset the expression matches iff the
\* whitespace run that starts there holds a line feed, and then, \s* being
\* greedy on both sides, it matches the whole run.
RECURSIVE FlattenLineBreaks(_)
FlattenLineBreaks(text) ==
    IF text = <<>> THEN <<>>
    ELSE LET run == WhitespaceRunLength(text)
         IN  IF \E i \in 1 .. run : text[i] = LF
             THEN <<" ">> \o FlattenLineBreaks(SubSeq(text, run + 1, Len(text)))
             ELSE <<text[1]>> \o FlattenLineBreaks(Tail(text))

SpaceOrTab(c) == c \in {" ", TAB}

\* How many spaces and tabs text starts with.
RECURSIVE SpaceOrTabRunLength(_)
SpaceOrTabRunLength(text) ==
    IF text = <<>> \/ ~SpaceOrTab(text[1]) THEN 0
    ELSE 1 + SpaceOrTabRunLength(Tail(text))

\* .replace(/[ \t]+/g, ' ')
RECURSIVE CollapseSpaces(_)
CollapseSpaces(text) ==
    IF text = <<>> THEN <<>>
    ELSE LET run == SpaceOrTabRunLength(text)
         IN  IF run > 0
             THEN <<" ">> \o CollapseSpaces(SubSeq(text, run + 1, Len(text)))
             ELSE <<text[1]>> \o CollapseSpaces(Tail(text))

RECURSIVE TrailingRunLength(_)
TrailingRunLength(text) ==
    IF text = <<>> \/ ~RegexWhitespace(text[Len(text)]) THEN 0
    ELSE 1 + TrailingRunLength(SubSeq(text, 1, Len(text) - 1))

\* .trim()
Trim(text) ==
    LET from == WhitespaceRunLength(text)
        rest == SubSeq(text, from + 1, Len(text))
    IN  SubSeq(rest, 1, Len(rest) - TrailingRunLength(rest))

\* Faulty variant: the zero-width characters are removed at the end of the
\* chain, after the spaces around them were collapsed and trimmed.
normalizeBookTextZeroWidthLast(text) ==
    RemoveZeroWidth(
      Trim(CollapseSpaces(FlattenLineBreaks(
        ReplaceSmartDashes(ReplaceSmartSingleQuotes(ReplaceSmartDoubleQuotes(
          ReplaceUnicodeSpaces(ReplaceCrLf(text)))))))))

normalizeBookText(text) ==
    Trim(CollapseSpaces(FlattenLineBreaks(
      ReplaceSmartDashes(ReplaceSmartSingleQuotes(ReplaceSmartDoubleQuotes(
        ReplaceUnicodeSpaces(RemoveZeroWidth(ReplaceCrLf(text)))))))))

RawTextsToNormalize == SeqsUpTo(RawChars, MaxNormLen)

\* A caller holds a raw book text (the body of a fetched book file).
InitNormalize ==
    /\ rawBody \in RawTextsToNormalize
    /\ normText = rawBody
    /\ normPasses = 0
    /\ streamIdle
    /\ loaderIdle
    /\ preloadIdle
    /\ appIdle
    /\ wpmIdle
    /\ callerIdle

\* text = normalizeBookText(text), as loadBookText does to a fetched body; a
\* second pass is the same function applied to its own result.
NormalizeBookText ==
    /\ normPasses < 2
    /\ normText' = normalizeBookText(normText)
    /\ normPasses' = normPasses + 1
    /\ UNCHANGED <<rawBody, streamVars, loaderVars, preloadVars, appVars, wpmVars, callerVars>>

NextNormalize ==
    \/ NormalizeBookText

SpecNormalize == InitNormalize /\ [][NextNormalize]_vars

\* C11: normalization is idempotent: once normalizeBookText has been applied to
\* a raw text, applying it again returns the same text; the second pass the
\* caller makes leaves its text as the first pass left it.
C11_NormalizeIdempotent ==
    normPasses >= 1 => normalizeBookText(normText) = normText

\* The case of C11: the first pass changed the raw text, which held a carriage
\* return, a line feed, a zero-width character and a letter, and left a
\* non-empty text, and the second pass has run over it.
C11_Witness ==
    /\ normPasses = 2
    /\ normText # rawBody
    /\ normText # <<>>
    /\ \E i \in 1 .. Len(rawBody) : rawBody[i] = CR
    /\ \E i \in 1 .. Len(rawBody) : rawBody[i] = LF
    /\ \E i \in 1 .. Len(rawBody) : rawBody[i] = ZWSP

(***************************************************************************)
(* The preload slot (corpusLoader.js, lines 186-230).                      *)
(*                                                                         *)
(* A build is one createSessionPayload(initialChars) activation together   *)
(* with the promise its caller holds: the activation's own promise for a   *)
(* "fresh" build, and the promise .catch() derives from it for a "preload" *)
(* build (preloadCorpusSession) and a "prime" build                        *)
(* (primeNextCorpusSession).  The catch handler has no effect but on the   *)
(* slot and on the derived promise, so it runs in the step that settles    *)
(* the activation.  A fulfilled build holds a session (session = TRUE: a   *)
(* new stream, identified by the build, and an initialText of textLen      *)
(* characters) or null (session = FALSE).                                  *)
(***************************************************************************)
MaxBuilds == 4
MaxPreloadCalls == 3

Build(origin, n) ==
    [origin |-> origin, initialChars |-> n, state |-> "pending", session |-> FALSE,
     textLen |-> 0]

\* createSessionPayload(initialChars), up to its first await.
createSessionPayload(bs, origin, n) == Append(bs, Build(origin, n))

\* The texts loadBookText fulfils with.
LoadedBookTexts ==
    {BookSettled(r).value : r \in {b \in BookResponses : BookSettled(b).state = "fulfilled"}}

\* initialText.length of the payloads createSessionPayload(n) can resolve with:
\* stream.createInitialBuffer(initialChars) on a new stream over a loaded book.
PayloadTextLengths ==
    [n \in InitialCharsChoices |->
       UNION {UNION {{Len(r.text) : r \in createInitialBuffer(text, start, n)}
                     : start \in pickRandomStartOffset(text)}
              : text \in LoadedBookTexts}]

\* Faulty variant: primeNextCorpusSession's handler rethrows, as
\* preloadCorpusSession's does.
CaughtRethrows(build) == [build EXCEPT !.state = "rejected"]

\* The promise .catch(handler) derives, once the activation has rejected:
\* preloadCorpusSession's handler rethrows (line 193), primeNextCorpusSession's
\* returns null (line 204).
Caught(build) ==
    IF build.origin = "prime"
    THEN [build EXCEPT !.state = "fulfilled", !.session = FALSE]
    ELSE [build EXCEPT !.state = "rejected"]

\* Faulty variant: a new construction is started whatever the slot holds.
PreloadStartsAlways(slot, slotChars, n) == TRUE

\* if (!preloadedSessionPromise || preloadedSessionChars !== initialChars)
PreloadStarts(slot, slotChars, n) == slot = 0 \/ slotChars # n

\* Faulty variant: the size the preload was requested with is not compared.
usePreloadedAnySize(slot, slotChars, n) == slot # 0

\* const usePreloaded = preloadedSessionPromise && preloadedSessionChars === initialChars
usePreloaded(slot, slotChars, n) == slot # 0 /\ slotChars = n

\* Faulty variant: the adopted preload stays in the slot.
SlotAfterAdoptionKept(slot, adopt) == slot

\* if (usePreloaded) { preloadedSessionPromise = null }
SlotAfterAdoption(slot, adopt) == IF adopt THEN 0 ELSE slot

Calls == Len(consumes) + Len(preloads)

\* preloadCorpusSession({ initialChars: n }), as a step on the slot's state.
preloadCorpusSession(n) ==
    LET starts == PreloadStarts(preloadedSessionPromise, preloadedSessionChars, n)
        slot   == IF starts THEN Len(builds) + 1 ELSE preloadedSessionPromise
    IN  /\ Calls < MaxPreloadCalls
        /\ starts => Len(builds) < MaxBuilds
        /\ builds' = IF starts THEN createSessionPayload(builds, "preload", n) ELSE builds
        /\ preloadedSessionChars' = IF starts THEN n ELSE preloadedSessionChars
        /\ preloadedSessionPromise' = slot
        /\ preloads' = Append(preloads, [initialChars |-> n, returned |-> slot])
        /\ UNCHANGED consumes

\* primeNextCorpusSession(n): the slot's state after it.
primeNextCorpusSession(bs, n) ==
    [builds |-> createSessionPayload(bs, "prime", n),
     preloadedSessionChars |-> n,
     preloadedSessionPromise |-> Len(bs) + 1]

\* consumePreloadedCorpusSession({ initialChars: n }) up to await sessionPromise.
\* sawSlot and sawChars are history: the slot as the call found it.
consumePreloadedCorpusSession(n) ==
    LET adopt == usePreloaded(preloadedSessionPromise, preloadedSessionChars, n)
    IN  /\ Calls < MaxPreloadCalls
        /\ ~adopt => Len(builds) < MaxBuilds
        /\ builds' = IF adopt THEN builds ELSE createSessionPayload(builds, "fresh", n)
        /\ preloadedSessionPromise' = SlotAfterAdoption(preloadedSessionPromise, adopt)
        /\ consumes' = Append(consumes,
                         [pc |-> "awaitSession", initialChars |-> n,
                          adopted |-> IF adopt THEN preloadedSessionPromise ELSE 0,
                          fresh |-> IF adopt THEN 0 ELSE Len(builds) + 1,
                          returned |-> 0, primed |-> 0,
                          sawSlot |-> preloadedSessionPromise,
                          sawChars |-> preloadedSessionChars])
        /\ UNCHANGED <<preloadedSessionChars, preloads>>

\* The promise a suspended consumePreloadedCorpusSession awaits.
Awaited(c) == IF c.pc = "awaitSession" /\ c.adopted # 0 THEN c.adopted ELSE c.fresh

\* consumePreloadedCorpusSession k resumes from an await (line 219 or 222).
\* A rejection ends the call; null from line 219 starts a fresh construction;
\* a session is returned after primeNextCorpusSession(initialChars).
consumeResumes(k) ==
    LET c == consumes[k]
        b == builds[Awaited(c)]
        p == primeNextCorpusSession(builds, c.initialChars)
    IN  /\ c.pc \in {"awaitSession", "awaitFresh"}
        /\ b.state # "pending"
        /\ IF b.state = "rejected"
           THEN /\ consumes' = [consumes EXCEPT ![k].pc = "rejected"]
                /\ UNCHANGED <<builds, preloadedSessionPromise, preloadedSessionChars>>
           ELSE IF ~b.session
           THEN /\ Len(builds) < MaxBuilds
                /\ builds' = createSessionPayload(builds, "fresh", c.initialChars)
                /\ consumes' = [consumes EXCEPT ![k].pc = "awaitFresh",
                                                ![k].fresh = Len(builds) + 1]
                /\ UNCHANGED <<preloadedSessionPromise, preloadedSessionChars>>
           ELSE /\ Len(builds) < MaxBuilds
                /\ builds' = p.builds
                /\ preloadedSessionChars' = p.preloadedSessionChars
                /\ preloadedSessionPromise' = p.preloadedSessionPromise
                /\ consumes' = [consumes EXCEPT ![k].pc = "resolved",
                                                ![k].returned = Awaited(c),
                                                ![k].primed = Len(builds) + 1]
        /\ UNCHANGED preloads

\* Faulty variant: the .catch() handlers leave the slot as it is.
sessionPayloadSettlesKeepsSlot(b, ok, len) ==
    /\ builds[b].state = "pending"
    /\ IF ok
       THEN builds' = [builds EXCEPT ![b].state = "fulfilled", ![b].session = TRUE,
                                     ![b].textLen = len]
       ELSE builds' = [builds EXCEPT ![b] = Caught(builds[b])]
    /\ UNCHANGED <<preloadedSessionPromise, preloadedSessionChars, consumes, preloads>>

\* createSessionPayload activation b ends: it returns {entry, stream,
\* initialText}, or a loadCorpusIndex or loadBookText it awaited rejected.  A
\* .catch() handler on it runs: preloadedSessionPromise = null.
sessionPayloadSettles(b, ok, len) ==
    /\ builds[b].state = "pending"
    /\ IF ok
       THEN /\ builds' = [builds EXCEPT ![b].state = "fulfilled", ![b].session = TRUE,
                                        ![b].textLen = len]
            /\ UNCHANGED preloadedSessionPromise
       ELSE /\ builds' = [builds EXCEPT ![b] = Caught(builds[b])]
            /\ preloadedSessionPromise' =
                 IF builds[b].origin = "fresh" THEN preloadedSessionPromise ELSE 0
    /\ UNCHANGED <<preloadedSessionChars, consumes, preloads>>

InitPreload ==
    /\ preloadIdle
    /\ streamIdle
    /\ loaderIdle
    /\ normIdle
    /\ appIdle
    /\ wpmIdle
    /\ callerIdle

\* A caller calls preloadCorpusSession({ initialChars: n }).
PreloadCorpusSession ==
    /\ \E n \in InitialCharsChoices : preloadCorpusSession(n)
    /\ UNCHANGED <<streamVars, loaderVars, normVars, appVars, wpmVars, callerVars>>

\* A caller calls consumePreloadedCorpusSession({ initialChars: n }).
ConsumePreloadedCorpusSession ==
    /\ \E n \in InitialCharsChoices : consumePreloadedCorpusSession(n)
    /\ UNCHANGED <<streamVars, loaderVars, normVars, appVars, wpmVars, callerVars>>

ConsumeResumes ==
    /\ \E k \in DOMAIN consumes : consumeResumes(k)
    /\ UNCHANGED <<streamVars, loaderVars, normVars, appVars, wpmVars, callerVars>>

SessionPayloadResolves ==
    /\ \E b \in DOMAIN builds :
         \E len \in PayloadTextLengths[builds[b].initialChars] :
            sessionPayloadSettles(b, TRUE, len)
    /\ UNCHANGED <<streamVars, loaderVars, normVars, appVars, wpmVars, callerVars>>

SessionPayloadRejects ==
    /\ \E b \in DOMAIN builds : sessionPayloadSettles(b, FALSE, 0)
    /\ UNCHANGED <<streamVars, loaderVars, normVars, appVars, wpmVars, callerVars>>

NextPreload ==
    \/ PreloadCorpusSession
    \/ ConsumePreloadedCorpusSession
    \/ ConsumeResumes
    \/ SessionPayloadResolves
    \/ SessionPayloadRejects

SpecPreload == InitPreload /\ [][NextPreload]_vars

(***************************************************************************)
(* Claims about the preload slot, checked under SpecPreload.               *)
(***************************************************************************)
LatestPreload == preloads[Len(preloads)]

\* C12: while a preload requested with initialChars = n is pending in the slot,
\* every preloadCorpusSession({initialChars: n}) call returns that same pending
\* promise, leaves it in the slot and starts no session construction.
C12_PreloadShared ==
    [][(/\ Len(preloads') = Len(preloads) + 1
        /\ preloadedSessionPromise # 0
        /\ builds[preloadedSessionPromise].state = "pending"
        /\ LatestPreload'.initialChars = preloadedSessionChars)
       => (/\ LatestPreload'.returned = preloadedSessionPromise
           /\ preloadedSessionPromise' = preloadedSessionPromise
           /\ builds' = builds)]_vars

\* The case of C12: two preloadCorpusSession calls with one size were made
\* while the first one's construction was pending, and one construction exists.
C12_Witness ==
    /\ Len(preloads) = 2
    /\ preloads[1].initialChars = preloads[2].initialChars
    /\ preloads[1].returned = preloads[2].returned
    /\ consumes = <<>>
    /\ Len(builds) = 1
    /\ builds[1].state = "pending"

\* The slot held a preload of the size consumePreloadedCorpusSession c asked for.
FoundCompatible(c) == c.sawSlot # 0 /\ c.sawChars = c.initialChars

\* C13: a preload is consumed at most once: no two consumePreloadedCorpusSession
\* calls adopt the same preload or return the same session (stream); a call that
\* finds a compatible preload adopts it and the slot no longer holds it from
\* then on; a call that finds none awaits a fresh construction of its own.
C13_ConsumedAtMostOnce ==
    /\ \A j, k \in DOMAIN consumes :
         j # k =>
           /\ consumes[j].adopted # 0 => consumes[j].adopted # consumes[k].adopted
           /\ consumes[j].returned # 0 => consumes[j].returned # consumes[k].returned
    /\ \A k \in DOMAIN consumes :
         LET c == consumes[k]
         IN  IF FoundCompatible(c)
             THEN c.adopted = c.sawSlot /\ preloadedSessionPromise # c.adopted
             ELSE /\ c.adopted = 0
                  /\ c.fresh \in DOMAIN builds
                  /\ builds[c.fresh].origin = "fresh"
                  /\ \A j \in DOMAIN consumes : j # k => consumes[j].fresh # c.fresh

\* The case of C13: after a preloadCorpusSession call, one call adopted the
\* preload and another, finding the slot empty, built a fresh session; both
\* returned, with different sessions.
C13_Witness ==
    /\ Len(preloads) = 1
    /\ Len(consumes) = 2
    /\ consumes[1].pc = "resolved"
    /\ consumes[2].pc = "resolved"
    /\ consumes[1].adopted = preloads[1].returned
    /\ consumes[1].returned = consumes[1].adopted
    /\ consumes[2].adopted = 0
    /\ consumes[2].sawSlot = 0
    /\ consumes[2].returned = consumes[2].fresh

\* C14: consumePreloadedCorpusSession({initialChars: n}) never returns a session
\* prepared for another size: a preload requested with another size is not
\* adopted and a construction for n is started instead, every adopted preload
\* was requested with n, and the initialText returned has at least n characters.
C14_SizeMatches ==
    \A k \in DOMAIN consumes :
      LET c == consumes[k]
      IN  /\ c.adopted # 0 => builds[c.adopted].initialChars = c.initialChars
          /\ (c.sawSlot # 0 /\ c.sawChars # c.initialChars) =>
                /\ c.adopted = 0
                /\ builds[c.fresh].origin = "fresh"
                /\ builds[c.fresh].initialChars = c.initialChars
          /\ c.pc = "resolved" =>
                /\ builds[c.returned].session
                /\ builds[c.returned].initialChars = c.initialChars
                /\ builds[c.returned].textLen >= c.initialChars

\* The case of C14: a call found in the slot a preload requested with another
\* size, which is pending still, and has returned a session of its own size.
C14_Witness ==
    \E k \in DOMAIN consumes :
      LET c == consumes[k]
      IN  /\ c.sawSlot # 0
          /\ c.sawChars # c.initialChars
          /\ builds[c.sawSlot].state = "pending"
          /\ builds[c.sawSlot].origin = "preload"
          /\ c.pc = "resolved"
          /\ c.returned = c.fresh

\* A construction primeNextCorpusSession started has failed.
PrimeFailed(build) ==
    build.origin = "prime" /\ build.state = "fulfilled" /\ ~build.session

\* The construction whose rejection ended consumePreloadedCorpusSession c.
RejectedBy(c) == IF c.fresh # 0 THEN c.fresh ELSE c.adopted

\* C15: a consumePreloadedCorpusSession call that has returned has started a
\* speculative construction for its own size; when such a construction fails,
\* its promise is not rejected and is not left in the slot, a call that adopted
\* it goes on to a fresh construction, and no call is rejected by it.
C15_PrimeFailureSwallowed ==
    /\ \A k \in DOMAIN consumes :
         LET c == consumes[k]
         IN  /\ c.pc = "resolved" =>
                  /\ c.primed \in DOMAIN builds
                  /\ builds[c.primed].origin = "prime"
                  /\ builds[c.primed].initialChars = c.initialChars
             /\ c.pc = "rejected" => builds[RejectedBy(c)].origin # "prime"
             /\ (c.adopted # 0 /\ PrimeFailed(builds[c.adopted]) /\ c.pc # "awaitSession") =>
                  /\ c.fresh \in DOMAIN builds
                  /\ builds[c.fresh].origin = "fresh"
                  /\ builds[c.fresh].initialChars = c.initialChars
    /\ \A b \in DOMAIN builds : builds[b].origin = "prime" => builds[b].state # "rejected"
    /\ preloadedSessionPromise # 0 => ~PrimeFailed(builds[preloadedSessionPromise])

\* The case of C15: the construction the first call primed has failed, the
\* second call had adopted it, and the second call has returned the session of
\* a fresh construction.
C15_Witness ==
    /\ Len(consumes) = 2
    /\ consumes[1].pc = "resolved"
    /\ PrimeFailed(builds[consumes[1].primed])
    /\ consumes[2].adopted = consumes[1].primed
    /\ consumes[2].pc = "resolved"
    /\ consumes[2].returned = consumes[2].fresh

\* C16: a consumePreloadedCorpusSession call that adopted a preload started by
\* preloadCorpusSession is not rejected when that preload fails.
C16_PreloadFailureSwallowed ==
    \A k \in DOMAIN consumes :
      LET c == consumes[k]
      IN  (/\ c.adopted # 0
           /\ builds[c.adopted].origin = "preload"
           /\ builds[c.adopted].state = "rejected")
          => c.pc # "rejected"

(***************************************************************************)
(* The App component: startSession and what invokes and follows it.        *)
(*                                                                         *)
(* src/src/App.jsx (startSession at lines 410-463) awaits                  *)
(* consumePreloadedCorpusSession behind an in-flight guard;                *)
(* src/unnamed/part_002 (lines 446-485) is the older form, which awaits    *)
(* createCorpusSession and has no guard and no preload.  appSource says    *)
(* which of the two runs.  A text is [kind, from, len]: fallback filler    *)
(* or the initialText of the session of build `from`, and its length.  Of  *)
(* the session model resetSessionModel resets, elapsedRef is kept; the     *)
(* audio, the theme and the typing statistics are not part of this state.  *)
(***************************************************************************)
MaxStarts == 3

\* App.jsx:28, 24000 in the source
INITIAL_TEXT_LENGTH == 4
\* App.jsx:27, 10 in the source
SHORT_SESSION_SKIP_SUMMARY_SECONDS == 1
\* App.jsx:33-34 and 122: the length of `${FALLBACK_CORPUS_NOTICE} `, 83 in the source
FALLBACK_NOTICE_CHARS == 3

FallbackText(len) == [kind |-> "fallback", from |-> 0, len |-> len]

\* Faulty variant: the notice is not repeated up to minChars.
createFallbackTextOnce(minChars) == FallbackText(FALLBACK_NOTICE_CHARS)

\* while (text.length < minLength) text += `${FALLBACK_CORPUS_NOTICE} `
RECURSIVE FallbackLength(_, _)
FallbackLength(len, minChars) ==
    IF len < minChars
    THEN FallbackLength(len + FALLBACK_NOTICE_CHARS, minChars)
    ELSE len

createFallbackText(minChars) ==
    FallbackText(FallbackLength(FALLBACK_NOTICE_CHARS, minChars))

\* resetSessionModel's safeInitialText
safeInitialText(initialText) ==
    IF initialText.len > 0 THEN initialText ELSE createFallbackText(INITIAL_TEXT_LENGTH)

\* Faulty variant: the load id is not compared.
isStaleNever(latest, currentLoadId) == FALSE

\* if (sessionLoadIdRef.current !== currentLoadId) return
isStale(latest, currentLoadId) == latest # currentLoadId

\* A startSession invocation; failed is history: its corpus session rejected.
StartRecord(at, loadId, consume, build) ==
    [pc |-> at, loadId |-> loadId, consume |-> consume, build |-> build,
     failed |-> FALSE]

\* The promise startSession awaits has settled; it rejected; the build whose
\* session it resolved with.
CorpusSettled(st) ==
    IF st.consume # 0
    THEN consumes[st.consume].pc \in {"resolved", "rejected"}
    ELSE builds[st.build].state # "pending"

CorpusRejected(st) ==
    IF st.consume # 0
    THEN consumes[st.consume].pc = "rejected"
    ELSE builds[st.build].state = "rejected"

CorpusSession(st) == IF st.consume # 0 THEN consumes[st.consume].returned ELSE st.build

\* corpusStreamRef.current = stream; resetSessionModel(initialText);
\* setScreen(SCREEN.TYPING); setSessionRunId(previous + 1).  Leaving the landing
\* screen clears its preload timeout.
commitSession(stream, initialText) ==
    /\ corpusStreamRef' = stream
    /\ targetTextRef' = safeInitialText(initialText)
    /\ elapsedRef' = 0
    /\ screen' = "typing"
    /\ sessionRunId' = sessionRunId + 1
    /\ preloadTimer' = FALSE

InitApp ==
    /\ appSource \in {"App.jsx", "part_002"}
    /\ screen = "landing"
    /\ sessionLoadIdRef = 0
    /\ sessionStartInFlightRef = FALSE
    /\ corpusStreamRef = 0
    /\ targetTextRef = createFallbackText(INITIAL_TEXT_LENGTH)
    /\ elapsedRef = 0
    /\ sessionRunId = 0
    /\ preloadTimer = (appSource = "App.jsx")
    /\ sessionStarts = <<>>
    /\ preloadIdle
    /\ streamIdle
    /\ loaderIdle
    /\ normIdle
    /\ wpmIdle
    /\ callerIdle

\* App.jsx: startSession is invoked (the landing or summary screen's button
\* or Enter key), and runs to its await or returns at the in-flight guard.
StartSession ==
    /\ appSource = "App.jsx"
    /\ screen \in {"landing", "summary"}
    /\ Len(sessionStarts) < MaxStarts
    /\ IF sessionStartInFlightRef
       THEN /\ sessionStarts' = Append(sessionStarts, StartRecord("dropped", 0, 0, 0))
            /\ UNCHANGED <<sessionStartInFlightRef, sessionLoadIdRef, preloadVars>>
       ELSE /\ sessionStartInFlightRef' = TRUE
            /\ sessionLoadIdRef' = sessionLoadIdRef + 1
            /\ consumePreloadedCorpusSession(INITIAL_TEXT_LENGTH)
            /\ sessionStarts' =
                 Append(sessionStarts,
                        StartRecord("awaitCorpus", sessionLoadIdRef + 1,
                                    Len(consumes) + 1, 0))
    /\ UNCHANGED <<appSource, screen, corpusStreamRef, targetTextRef, elapsedRef,
                   sessionRunId, preloadTimer, streamVars, loaderVars, normVars, wpmVars, callerVars>>

\* part_002: startSession is invoked, and runs to await createCorpusSession.
StartSessionLegacy ==
    /\ appSource = "part_002"
    /\ screen \in {"landing", "summary"}
    /\ Len(sessionStarts) < MaxStarts
    /\ Len(builds) < MaxBuilds
    /\ sessionLoadIdRef' = sessionLoadIdRef + 1
    /\ builds' = createSessionPayload(builds, "fresh", INITIAL_TEXT_LENGTH)
    /\ sessionStarts' =
         Append(sessionStarts,
                StartRecord("awaitCorpus", sessionLoadIdRef + 1, 0, Len(builds) + 1))
    /\ UNCHANGED <<appSource, screen, sessionStartInFlightRef, corpusStreamRef,
                   targetTextRef, elapsedRef, sessionRunId, preloadTimer,
                   preloadedSessionPromise, preloadedSessionChars, consumes, preloads,
                   streamVars, loaderVars, normVars, wpmVars, callerVars>>

\* startSession resumes from its await, in the try or in the catch: it
\* returns if its load id is stale, else commits the session or the fallback
\* text; App.jsx's finally clears the in-flight flag on every way out.
StartSessionResumes ==
    /\ \E s \in DOMAIN sessionStarts :
         LET st     == sessionStarts[s]
             stream == CorpusSession(st)
         IN  /\ st.pc = "awaitCorpus"
             /\ CorpusSettled(st)
             /\ IF isStale(sessionLoadIdRef, st.loadId)
                THEN /\ sessionStarts' =
                          [sessionStarts EXCEPT ![s].pc = "discarded",
                                                ![s].failed = CorpusRejected(st)]
                     /\ UNCHANGED <<corpusStreamRef, targetTextRef, elapsedRef, screen,
                                    sessionRunId, preloadTimer>>
                ELSE /\ sessionStarts' =
                          [sessionStarts EXCEPT ![s].pc = "committed",
                                                ![s].failed = CorpusRejected(st)]
                     /\ IF CorpusRejected(st)
                        THEN commitSession(0, createFallbackText(INITIAL_TEXT_LENGTH))
                        ELSE commitSession(stream,
                                           [kind |-> "corpus", from |-> stream,
                                            len |-> builds[stream].textLen])
    /\ sessionStartInFlightRef' =
         IF appSource = "App.jsx" THEN FALSE ELSE sessionStartInFlightRef
    /\ UNCHANGED <<appSource, sessionLoadIdRef, preloadVars, streamVars, loaderVars,
                   normVars, wpmVars, callerVars>>

\* finishSession: a session shorter than the threshold returns to the landing
\* screen (whose effect sets the preload timeout), a longer one shows the summary.
FinishSession ==
    /\ screen = "typing"
    /\ IF elapsedRef < SHORT_SESSION_SKIP_SUMMARY_SECONDS
       THEN /\ screen' = "landing"
            /\ preloadTimer' = (appSource = "App.jsx")
       ELSE /\ screen' = "summary"
            /\ UNCHANGED preloadTimer
    /\ UNCHANGED <<appSource, sessionLoadIdRef, sessionStartInFlightRef, corpusStreamRef,
                   targetTextRef, elapsedRef, sessionRunId, sessionStarts, preloadVars,
                   streamVars, loaderVars, normVars, wpmVars, callerVars>>

\* The typing screen's interval: elapsedRef.current = nextElapsedSeconds.  The
\* count stops at the threshold, beyond which finishSession does not tell.
ElapsedTimer ==
    /\ screen = "typing"
    /\ elapsedRef < SHORT_SESSION_SKIP_SUMMARY_SECONDS
    /\ elapsedRef' = elapsedRef + 1
    /\ UNCHANGED <<appSource, screen, sessionLoadIdRef, sessionStartInFlightRef,
                   corpusStreamRef, targetTextRef, sessionRunId, preloadTimer,
                   sessionStarts, preloadVars, streamVars, loaderVars, normVars, wpmVars, callerVars>>

\* App.jsx: the landing screen's timeout fires:
\* void preloadCorpusSession({ initialChars: INITIAL_TEXT_LENGTH }).
LandingPreloadTimer ==
    /\ appSource = "App.jsx"
    /\ screen = "landing"
    /\ preloadTimer
    /\ preloadTimer' = FALSE
    /\ preloadCorpusSession(INITIAL_TEXT_LENGTH)
    /\ UNCHANGED <<appSource, screen, sessionLoadIdRef, sessionStartInFlightRef,
                   corpusStreamRef, targetTextRef, elapsedRef, sessionRunId,
                   sessionStarts, streamVars, loaderVars, normVars, wpmVars, callerVars>>

NextApp ==
    \/ StartSession
    \/ StartSessionLegacy
    \/ StartSessionResumes
    \/ FinishSession
    \/ ElapsedTimer
    \/ LandingPreloadTimer
    \/ ConsumeResumes
    \/ SessionPayloadResolves
    \/ SessionPayloadRejects

SpecApp == InitApp /\ [][NextApp]_vars

(***************************************************************************)
(* Claims about startSession, checked under SpecApp.  They are properties  *)
(* of steps: of the step in which an invocation ends, or is made.          *)
(***************************************************************************)
\* Invocation s ends in this step: it resumes from its await and returns, or
\* it is made and returns at once.
Resumes(s) ==
    /\ s \in DOMAIN sessionStarts
    /\ sessionStarts[s].pc = "awaitCorpus"
    /\ sessionStarts'[s].pc # "awaitCorpus"

ReturnsAtOnce(s) ==
    /\ s \notin DOMAIN sessionStarts
    /\ s \in DOMAIN sessionStarts'
    /\ sessionStarts'[s].pc # "awaitCorpus"

\* The load ids issued so far, and the latest of them.
IssuedLoadIds == {sessionStarts[s].loadId : s \in DOMAIN sessionStarts} \cup {0}

LatestLoadId == CHOOSE id \in IssuedLoadIds : \A other \in IssuedLoadIds : other <= id

\* What a startSession invocation commits.
SessionState == <<corpusStreamRef, targetTextRef, elapsedRef, screen, sessionRunId>>

\* After the step the typing screen shows a text of at least INITIAL_TEXT_LENGTH
\* characters: the fallback filler, with no stream, if the corpus session of
\* invocation s rejected, else the initialText and the stream of that session.
SessionShown(s) ==
    /\ screen' = "typing"
    /\ targetTextRef'.len > 0
    /\ targetTextRef'.len >= INITIAL_TEXT_LENGTH
    /\ IF sessionStarts'[s].failed
       THEN targetTextRef'.kind = "fallback" /\ corpusStreamRef' = 0
       ELSE /\ targetTextRef'.kind = "corpus"
            /\ corpusStreamRef' # 0
            /\ targetTextRef'.from = corpusStreamRef'

C18_StaleDiscarded ==
    [][/\ \A s \in DOMAIN sessionStarts :
            Resumes(s) =>
              IF sessionStarts[s].loadId = LatestLoadId
              THEN sessionStarts'[s].pc = "committed"
              ELSE sessionStarts'[s].pc = "discarded" /\ UNCHANGED SessionState
       /\ (\/ corpusStreamRef' # corpusStreamRef
           \/ targetTextRef' # targetTextRef
           \/ sessionRunId' # sessionRunId
           \/ (screen' = "typing" /\ screen # "typing"))
          => \E s \in DOMAIN sessionStarts :
               Resumes(s) /\ sessionStarts[s].loadId = LatestLoadId
       /\ sessionLoadIdRef = LatestLoadId]_vars

\* The case of C18: an invocation whose corpus session resolved was discarded,
\* a later one had been made before it resumed, and the later one's session is
\* the committed one.
C18_Witness ==
    \E s, t \in DOMAIN sessionStarts :
      /\ s < t
      /\ sessionStarts[s].pc = "discarded"
      /\ ~sessionStarts[s].failed
      /\ sessionStarts[t].pc = "committed"
      /\ ~sessionStarts[t].failed
      /\ corpusStreamRef = CorpusSession(sessionStarts[t])
      /\ screen = "typing"

\* C19: in App.jsx, a startSession invocation made while an earlier one awaits
\* its corpus session supersedes it: the new invocation goes on to load a
\* session, and the load id of every awaiting invocation is stale from then on.
C19_NewerSupersedes ==
    [][(/\ appSource = "App.jsx"
        /\ Len(sessionStarts') = Len(sessionStarts) + 1
        /\ \E s \in DOMAIN sessionStarts : sessionStarts[s].pc = "awaitCorpus")
       => (/\ sessionStarts'[Len(sessionStarts')].pc = "awaitCorpus"
           /\ \A s \in DOMAIN sessionStarts :
                sessionStarts[s].pc = "awaitCorpus" =>
                  isStale(sessionLoadIdRef', sessionStarts[s].loadId))]_vars

(***************************************************************************)
(* calculateRollingWpmFromEvents (src/unnamed/part_002, lines 45-77).      *)
(*                                                                         *)
(* Times are milliseconds, as in the source.  The quotient                 *)
(* sum / 5 / (windowMs / 60000) is the rational sum * 60000 / (5 *         *)
(* windowMs); Math.round is taken of that exact value, which is what the   *)
(* double arithmetic of the source yields for the windows drawn here, no   *)
(* quotient of theirs lying on or next to a half.                          *)
(***************************************************************************)
MaxEvents == 3

\* part_002:2
ROLLING_WINDOW_MS == 10000

NoEventsInWindow ==
    [called |-> TRUE, rollingWpm |-> 0, rawWpm |-> 0, hasEventsInWindow |-> FALSE]

\* Faulty variant: an event at exactly windowStart is left out.
BeforeWindowInclusive(event, windowStart) == event.t <= windowStart

\* if (event.t < windowStart) break
BeforeWindow(event, windowStart) == event.t < windowStart

\* The for loop from index down to the first event, with sums so far.
RECURSIVE ScanBack(_, _, _, _)
ScanBack(events, index, windowStart, sums) ==
    IF index < 1 \/ BeforeWindow(events[index], windowStart)
    THEN sums
    ELSE ScanBack(events, index - 1, windowStart,
                  [hasEventsInWindow |-> TRUE,
                   sumChars |-> sums.sumChars + events[index].chars,
                   sumCorrectChars |-> sums.sumCorrectChars + events[index].correctChars])

\* Math.round(num / den) for den > 0: the integer nearest to the quotient, a
\* half going up.
MathRound(num, den) == (2 * num + den) \div (2 * den)

calculateRollingWpmFromEvents(events, now, windowMs) ==
    IF events = <<>> THEN NoEventsInWindow
    ELSE LET sums == ScanBack(events, Len(events), now - windowMs,
                              [hasEventsInWindow |-> FALSE, sumChars |-> 0,
                               sumCorrectChars |-> 0])
         IN  IF ~sums.hasEventsInWindow THEN NoEventsInWindow
             ELSE [called |-> TRUE,
                   rollingWpm |-> MathRound(sums.sumCorrectChars * 60000, 5 * windowMs),
                   rawWpm |-> MathRound(sums.sumChars * 60000, 5 * windowMs),
                   hasEventsInWindow |-> TRUE]

\* The windowMs arguments: the default, and the retention window of the callers.
WindowChoices == {ROLLING_WINDOW_MS, ROLLING_WINDOW_MS * 3}

NowChoices == {ROLLING_WINDOW_MS * 4, ROLLING_WINDOW_MS * 4 + 250}

\* Event times about the window's start, and the call's own time.
EventTimes(now, windowMs) ==
    {now - windowMs - 1, now - windowMs, now - windowMs + 1, now}

\* One keystroke, right or wrong (App.jsx lines 607-611), and events that
\* stand for several keystrokes.
EventSizes ==
    {[chars |-> 1, correctChars |-> 0], [chars |-> 1, correctChars |-> 1],
     [chars |-> 5, correctChars |-> 0], [chars |-> 50, correctChars |-> 50]}

EventLists(now, windowMs) ==
    {list \in SeqsUpTo({[t |-> t, chars |-> size.chars, correctChars |-> size.correctChars]
                          : t \in EventTimes(now, windowMs), size \in EventSizes},
                       MaxEvents) :
        \A i \in 1 .. Len(list) - 1 : list[i].t <= list[i + 1].t}

\* A caller holds a time-ascending event list, none later than now.
InitWpm ==
    /\ rollingWindow \in WindowChoices
    /\ clockNow \in NowChoices
    /\ typingEvents \in EventLists(clockNow, rollingWindow)
    /\ rolling = [called |-> FALSE, rollingWpm |-> 0, rawWpm |-> 0,
                  hasEventsInWindow |-> FALSE]
    /\ streamIdle
    /\ loaderIdle
    /\ normIdle
    /\ preloadIdle
    /\ appIdle
    /\ callerIdle

\* rolling = calculateRollingWpmFromEvents(events, now, windowMs)
CalculateRollingWpm ==
    /\ ~rolling.called
    /\ rolling' = calculateRollingWpmFromEvents(typingEvents, clockNow, rollingWindow)
    /\ UNCHANGED <<typingEvents, clockNow, rollingWindow, streamVars, loaderVars,
                   normVars, preloadVars, appVars, callerVars>>

NextWpm ==
    \/ CalculateRollingWpm

SpecWpm == InitWpm /\ [][NextWpm]_vars

\* The events of the list that lie in the window, its start included.
InWindow == {i \in DOMAIN typingEvents : clockNow - rollingWindow <= typingEvents[i].t}

RECURSIVE SumOver(_, _)
SumOver(indices, field) ==
    IF indices = {} THEN 0
    ELSE LET i == CHOOSE j \in indices : TRUE
         IN  typingEvents[i][field] + SumOver(indices \ {i}, field)

\* k is round(sum / 5 / (windowMs / 60000)): no integer is nearer to that
\* quotient, which cleared of fractions is sum * 60000 / (5 * windowMs).
IsRounded(k, sum) ==
    LET twice == 2 * sum * 60000 - 2 * k * 5 * rollingWindow
    IN  -(5 * rollingWindow) <= twice /\ twice <= 5 * rollingWindow

\* C20: for a time-ascending event list with no event later than now,
\* calculateRollingWpmFromEvents accumulates exactly the events with
\* now - windowMs <= t: hasEventsInWindow says whether there is one, rollingWpm
\* and rawWpm are the rounded quotients of their correctChars and chars sums;
\* 50 correct of 55 characters in 10000 ms give 60 and 66.
C20_RollingWindow ==
    rolling.called =>
      /\ rolling.hasEventsInWindow = (InWindow # {})
      /\ IsRounded(rolling.rollingWpm, SumOver(InWindow, "correctChars"))
      /\ IsRounded(rolling.rawWpm, SumOver(InWindow, "chars"))
      /\ (/\ rollingWindow = 10000
          /\ SumOver(InWindow, "correctChars") = 50
          /\ SumOver(InWindow, "chars") = 55)
         => rolling.rollingWpm = 60 /\ rolling.rawWpm = 66

\* The case of C20: the list holds an event older than the window, one at
\* exactly now - windowMs and a later one; 50 correct of 55 characters lie in
\* the 10000 ms window and the call has returned 60 and 66.
C20_Witness ==
    /\ rolling.called
    /\ rollingWindow = 10000
    /\ Len(typingEvents) = 3
    /\ typingEvents[1].t < clockNow - rollingWindow
    /\ typingEvents[2].t = clockNow - rollingWindow
    /\ typingEvents[3].t > clockNow - rollingWindow
    /\ SumOver(InWindow, "correctChars") = 50
    /\ SumOver(InWindow, "chars") = 55
    /\ rolling.rollingWpm = 60
    /\ rolling.rawWpm = 66


(***************************************************************************)
(* getRollingWpmDisplay (src/unnamed/part_002, lines 83-117).  A number    *)
(* that may be null is a sequence: <<>> for null, <<n>> for the number n.  *)
(***************************************************************************)
WPM_WARMUP_MS == 3000

WPM_WARMUP_MIN_CHARS == 10

WPM_IDLE_RESET_MS == 15000

NullDisplay == [called |-> TRUE, displayWpm |-> <<>>, rawWpm |-> 0]

\* Faulty variant: the warm-up ends only when both conditions are met.
warmupReachedBoth(now, first, total, warmupMs, warmupMinChars) ==
    now - first >= warmupMs /\ total >= warmupMinChars

warmupReached(now, first, total, warmupMs, warmupMinChars) ==
    now - first >= warmupMs \/ total >= warmupMinChars

\* Faulty variant: an idle time of exactly idleResetMs still holds the display.
idleHoldInclusive(now, last, idleResetMs) ==
    last # 0 /\ now - last <= idleResetMs

\* lastTypedAt && now - lastTypedAt < idleResetMs
idleHold(now, last, idleResetMs) ==
    last # 0 /\ now - last < idleResetMs

\* Faulty variant: the raw WPM is displayed.
displayOfRaw(rollingNow) ==
    [called |-> TRUE, displayWpm |-> <<rollingNow.rawWpm>>, rawWpm |-> rollingNow.rawWpm]

\* { displayWpm: rolling.rollingWpm, rawWpm: rolling.rawWpm }
displayOf(rollingNow) ==
    [called |-> TRUE, displayWpm |-> <<rollingNow.rollingWpm>>, rawWpm |-> rollingNow.rawWpm]

\* The arguments are the fields of the object the source's function takes.
getRollingWpmDisplay(events, now, first, total, last, previous, windowMs, warmupMs, warmupMinChars, idleResetMs) ==
    IF first = 0 \/ total = 0 THEN NullDisplay
    ELSE IF ~warmupReached(now, first, total, warmupMs, warmupMinChars) THEN NullDisplay
    ELSE LET rollingNow == calculateRollingWpmFromEvents(events, now, windowMs)
         IN  IF rollingNow.hasEventsInWindow THEN displayOf(rollingNow)
             ELSE IF idleHold(now, last, idleResetMs)
                  THEN [called |-> TRUE, displayWpm |-> previous, rawWpm |-> 0]
                  ELSE NullDisplay

\* Event times about the start of the window, and the call's own time.
DisplayEventTimes(now, windowMs) == {now - windowMs - 1, now - windowMs, now}

\* Five wrong keystrokes, or fifty right ones.
DisplayEventSizes ==
    {[chars |-> 5, correctChars |-> 0], [chars |-> 50, correctChars |-> 50]}

DisplayEventLists(now, windowMs) ==
    {list \in SeqsUpTo({[t |-> t, chars |-> size.chars, correctChars |-> size.correctChars]
                          : t \in DisplayEventTimes(now, windowMs),
                            size \in DisplayEventSizes},
                       MaxEvents) :
        \A i \in 1 .. Len(list) - 1 : list[i].t <= list[i + 1].t}

\* Unset, and first keystrokes about the end of the warm-up and long before.
FirstTypedChoices(now) ==
    {0, now - WPM_WARMUP_MS + 1, now - WPM_WARMUP_MS, now - 2 * WPM_IDLE_RESET_MS}

TotalTypedChoices == {0, WPM_WARMUP_MIN_CHARS - 1, WPM_WARMUP_MIN_CHARS}

\* Unset, and last keystrokes about the idle reset time.
LastTypedChoices(now) ==
    {0, now - 5000, now - WPM_IDLE_RESET_MS + 1, now - WPM_IDLE_RESET_MS, now - 20000}

PreviousDisplayChoices == {<<>>, <<0>>, <<42>>}

\* The arguments are arbitrary: the function is called with the defaults of
\* windowMs, warmupMs, warmupMinChars and idleResetMs (App.jsx lines 666-673).
InitDisplay ==
    /\ rollingWindow = ROLLING_WINDOW_MS
    /\ clockNow \in NowChoices
    /\ typingEvents \in DisplayEventLists(clockNow, rollingWindow)
    /\ rolling = [called |-> FALSE, rollingWpm |-> 0, rawWpm |-> 0,
                  hasEventsInWindow |-> FALSE]
    /\ firstTypedAt \in FirstTypedChoices(clockNow)
    /\ totalTypedChars \in TotalTypedChoices
    /\ lastTypedAt \in LastTypedChoices(clockNow)
    /\ previousDisplay \in PreviousDisplayChoices
    /\ display = [called |-> FALSE, displayWpm |-> <<>>, rawWpm |-> 0]
    /\ accuracyIdle
    /\ trimIdle
    /\ boundaryIdle
    /\ typingIdle
    /\ streamIdle
    /\ loaderIdle
    /\ normIdle
    /\ preloadIdle
    /\ appIdle

\* display = getRollingWpmDisplay({ events, now, firstTypedAt, ... })
GetRollingWpmDisplay ==
    /\ ~display.called
    /\ display' = getRollingWpmDisplay(typingEvents, clockNow, firstTypedAt,
                                       totalTypedChars, lastTypedAt, previousDisplay,
                                       rollingWindow, WPM_WARMUP_MS,
                                       WPM_WARMUP_MIN_CHARS, WPM_IDLE_RESET_MS)
    /\ UNCHANGED <<firstTypedAt, totalTypedChars, lastTypedAt, previousDisplay,
                   accuracyVars, trimVars, boundaryVars, typingVars, wpmVars, streamVars, loaderVars, normVars,
                   preloadVars, appVars>>

NextDisplay ==
    \/ GetRollingWpmDisplay

SpecDisplay == InitDisplay /\ [][NextDisplay]_vars

\* firstTypedAt is unset or nothing was typed.
NothingTyped == firstTypedAt = 0 \/ totalTypedChars = 0

\* Neither the warm-up time has passed nor the minimum was typed.
WarmingUp ==
    clockNow - firstTypedAt < WPM_WARMUP_MS /\ totalTypedChars < WPM_WARMUP_MIN_CHARS

\* C21: getRollingWpmDisplay returns a null display, whatever the events and
\* previousDisplay are, when firstTypedAt is unset or totalTypedChars is 0 and
\* when both the warm-up time has not passed and fewer than warmupMinChars
\* were typed; once either has happened the gate no longer forces null: with
\* an event in the window the display is a number.
C21_WarmupGate ==
    display.called =>
      /\ (NothingTyped \/ WarmingUp) => display.displayWpm = <<>> /\ display.rawWpm = 0
      /\ (~NothingTyped /\ ~WarmingUp /\ InWindow # {}) => display.displayWpm # <<>>

\* The cases of C21: the call returned null in the warm-up although an event
\* lies in the window and the previous display is 42.
C21_Witness ==
    /\ display.called
    /\ ~NothingTyped
    /\ WarmingUp
    /\ InWindow # {}
    /\ previousDisplay = <<42>>
    /\ display.displayWpm = <<>>

\* The gate has let a call through on the time alone.
C21_WitnessPastGate ==
    /\ display.called
    /\ ~NothingTyped
    /\ clockNow - firstTypedAt = WPM_WARMUP_MS
    /\ totalTypedChars < WPM_WARMUP_MIN_CHARS
    /\ InWindow # {}
    /\ display.displayWpm # <<>>

\* C22: when the warm-up is reached and an event lies in the rolling window,
\* getRollingWpmDisplay displays the rolling WPM of the correct characters of
\* the window: a number, which may be 0, and neither the raw WPM nor the
\* previous display.
C22_DisplaysRolling ==
    (display.called /\ ~NothingTyped /\ ~WarmingUp /\ InWindow # {}) =>
      /\ Len(display.displayWpm) = 1
      /\ IsRounded(display.displayWpm[1], SumOver(InWindow, "correctChars"))
      /\ IsRounded(display.rawWpm, SumOver(InWindow, "chars"))

\* The case of C22: 50 correct of 55 characters in the window, the previous
\* display was 42, and the call displays 60 while the raw WPM is 66.
C22_Witness ==
    /\ display.called
    /\ ~NothingTyped
    /\ ~WarmingUp
    /\ SumOver(InWindow, "correctChars") = 50
    /\ SumOver(InWindow, "chars") = 55
    /\ previousDisplay = <<42>>
    /\ display.displayWpm = <<60>>
    /\ display.rawWpm = 66

\* C23: when the warm-up is reached and no event lies in the window,
\* getRollingWpmDisplay returns previousDisplay unchanged while the idle time
\* now - lastTypedAt is below idleResetMs, and null from idleResetMs on or
\* with lastTypedAt unset; a previous display of 42 stays 42 after 5000 ms
\* and is null after 20000 ms.
C23_IdleHoldThenReset ==
    (display.called /\ ~NothingTyped /\ ~WarmingUp /\ InWindow = {}) =>
      /\ (lastTypedAt # 0 /\ clockNow - lastTypedAt < WPM_IDLE_RESET_MS)
            => display.displayWpm = previousDisplay
      /\ (lastTypedAt = 0 \/ clockNow - lastTypedAt >= WPM_IDLE_RESET_MS)
            => display.displayWpm = <<>>
      /\ display.rawWpm = 0

\* The cases of C23: 42 is held after 5000 idle milliseconds.
C23_Witness ==
    /\ display.called
    /\ ~NothingTyped
    /\ ~WarmingUp
    /\ InWindow = {}
    /\ previousDisplay = <<42>>
    /\ clockNow - lastTypedAt = 5000
    /\ display.displayWpm = <<42>>

\* 42 is dropped after exactly idleResetMs idle milliseconds.
C23_WitnessReset ==
    /\ display.called
    /\ ~NothingTyped
    /\ ~WarmingUp
    /\ InWindow = {}
    /\ previousDisplay = <<42>>
    /\ clockNow - lastTypedAt = WPM_IDLE_RESET_MS
    /\ display.displayWpm = <<>>


(***************************************************************************)
(* calculateAccuracy (src/unnamed/part_002, lines 18-24).  The quotient    *)
(* correctCharacters / totalCharacters and its product with 100 are        *)
(* doubles.  Where the exact value lies between two halves the double lies *)
(* there too; where the exact value is a half the double may be that half  *)
(* (1 / 8 * 100 is 12.5) or lie just below it (23 / 40 * 100 is            *)
(* 57.49999999999999), so Math.round may return either neighbour.          *)
(***************************************************************************)
MaxTyped == 40

\* Faulty variant: the quotient is cut off, as Math.floor does.
MathRoundDoubleFloor(num, den) == {num \div den}

\* The values Math.round may return for the double of num / den.
MathRoundDouble(num, den) ==
    IF (2 * num) % (2 * den) = den
    THEN {num \div den, num \div den + 1}
    ELSE {MathRound(num, den)}

\* The values calculateAccuracy may return.
calculateAccuracy(correct, total) ==
    IF total = 0 THEN {100}
    ELSE MathRoundDouble(correct * 100, total)

\* The statistics of a session: no more correct characters than typed ones
\* (App.jsx lines 596-600).
InitAccuracy ==
    /\ totalCharacters \in 0 .. MaxTyped
    /\ correctCharacters \in 0 .. totalCharacters
    /\ accuracy = <<>>
    /\ displayIdle
    /\ trimIdle
    /\ boundaryIdle
    /\ typingIdle
    /\ streamIdle
    /\ loaderIdle
    /\ normIdle
    /\ preloadIdle
    /\ appIdle
    /\ wpmIdle

\* accuracy = calculateAccuracy(correctCharacters, totalCharacters)
CalculateAccuracy ==
    /\ accuracy = <<>>
    /\ \E result \in calculateAccuracy(correctCharacters, totalCharacters) :
          accuracy' = <<result>>
    /\ UNCHANGED <<correctCharacters, totalCharacters, displayVars, trimVars, boundaryVars, typingVars,
                   wpmVars,
                   streamVars, loaderVars, normVars, preloadVars, appVars>>

NextAccuracy ==
    \/ CalculateAccuracy

SpecAccuracy == InitAccuracy /\ [][NextAccuracy]_vars

\* C24: calculateAccuracy(correct, total) returns 100 when total is 0 and the
\* rounding of correct / total * 100 otherwise: no integer is nearer to that
\* quotient, and (7, 10) gives 70; for 0 <= correct <= total the result is an
\* integer from 0 to 100.
C24_Accuracy ==
    accuracy # <<>> =>
      LET twice == 2 * 100 * correctCharacters - 2 * accuracy[1] * totalCharacters
      IN  /\ totalCharacters = 0 => accuracy[1] = 100
          /\ totalCharacters # 0 => -totalCharacters <= twice /\ twice <= totalCharacters
          /\ (correctCharacters = 7 /\ totalCharacters = 10) => accuracy[1] = 70
          /\ accuracy[1] \in 0 .. 100

\* The case of C24: 7 correct characters of 10 have given 70.
C24_Witness ==
    /\ correctCharacters = 7
    /\ totalCharacters = 10
    /\ accuracy = <<70>>

\* Nothing was typed and the accuracy is 100.
C24_WitnessNothingTyped ==
    /\ totalCharacters = 0
    /\ accuracy = <<100>>


(***************************************************************************)
(* trimTypingEvents (src/unnamed/part_002, lines 27-42).  The function     *)
(* changes the list it is given; the operator is the list after the call.  *)
(***************************************************************************)
\* Faulty variant: an event at exactly minTime is trimmed too.
TrimmableInclusive(event, minTime) == event.t <= minTime

\* events[trimCount].t < minTime
Trimmable(event, minTime) == event.t < minTime

\* The while loop of lines 35-37, from the trimCount it has reached.
RECURSIVE TrimLoop(_, _, _)
TrimLoop(events, trimCount, minTime) ==
    IF trimCount < Len(events) /\ Trimmable(events[trimCount + 1], minTime)
    THEN TrimLoop(events, trimCount + 1, minTime)
    ELSE trimCount

\* events.splice(0, trimCount)
Splice(events, trimCount) == SubSeq(events, trimCount + 1, Len(events))

trimTypingEvents(events, now, retention) ==
    IF events = <<>> THEN events
    ELSE LET minTime == now - retention
             trimCount == TrimLoop(events, 0, minTime)
         IN  IF trimCount > 0 THEN Splice(events, trimCount) ELSE events

\* The default retention, which is also what the callers pass (App.jsx
\* lines 612 and 660-664), and a shorter one.
RetentionChoices == {ROLLING_WINDOW_MS * 3, ROLLING_WINDOW_MS}

\* One keystroke, right or wrong, at times about now - retentionMs.
TrimEventLists(now, retention) ==
    {list \in SeqsUpTo({[t |-> t, chars |-> 1, correctChars |-> correct]
                          : t \in EventTimes(now, retention), correct \in {0, 1}},
                       MaxEvents) :
        \A i \in 1 .. Len(list) - 1 : list[i].t <= list[i + 1].t}

\* A caller holds a time-ascending event list.
InitTrim ==
    /\ retentionMs \in RetentionChoices
    /\ clockNow \in NowChoices
    /\ typingEvents \in TrimEventLists(clockNow, retentionMs)
    /\ eventsBefore = <<>>
    /\ trimCalls = 0
    /\ rollingWindow = 0
    /\ rolling = [called |-> FALSE, rollingWpm |-> 0, rawWpm |-> 0,
                  hasEventsInWindow |-> FALSE]
    /\ displayIdle
    /\ accuracyIdle
    /\ boundaryIdle
    /\ typingIdle
    /\ streamIdle
    /\ loaderIdle
    /\ normIdle
    /\ preloadIdle
    /\ appIdle

\* trimTypingEvents(events, now, retentionMs)
TrimTypingEvents ==
    /\ trimCalls = 0
    /\ trimCalls' = 1
    /\ eventsBefore' = typingEvents
    /\ typingEvents' = trimTypingEvents(typingEvents, clockNow, retentionMs)
    /\ UNCHANGED <<retentionMs, clockNow, rollingWindow, rolling, displayVars,
                   accuracyVars, boundaryVars, typingVars, streamVars, loaderVars, normVars, preloadVars, appVars>>

NextTrim ==
    \/ TrimTypingEvents

SpecTrim == InitTrim /\ [][NextTrim]_vars

\* How many events the call has removed.
Trimmed == Len(eventsBefore) - Len(typingEvents)

\* C25: for a time-ascending list trimTypingEvents(events, now, retentionMs)
\* removes exactly the longest prefix of events with t < now - retentionMs:
\* what remains is a suffix of the list in the same order, every remaining
\* event has t >= now - retentionMs (one at exactly that time is kept), every
\* removed one is older, and an empty list stays empty.
C25_TrimsMaximalPrefix ==
    trimCalls = 1 =>
      /\ Trimmed \in 0 .. Len(eventsBefore)
      /\ typingEvents = SubSeq(eventsBefore, Trimmed + 1, Len(eventsBefore))
      /\ \A i \in 1 .. Trimmed : eventsBefore[i].t < clockNow - retentionMs
      /\ \A i \in DOMAIN typingEvents : typingEvents[i].t >= clockNow - retentionMs
      /\ eventsBefore = <<>> => typingEvents = <<>>

\* The case of C25: of an older event, one at exactly now - retentionMs and
\* a later one the call has removed the first and kept the other two.
C25_Witness ==
    /\ trimCalls = 1
    /\ Len(eventsBefore) = 3
    /\ eventsBefore[1].t < clockNow - retentionMs
    /\ eventsBefore[2].t = clockNow - retentionMs
    /\ eventsBefore[3].t > clockNow - retentionMs
    /\ typingEvents = <<eventsBefore[2], eventsBefore[3]>>


(***************************************************************************)
(* The cursor of a stream (SpecStream).                                    *)
(***************************************************************************)
\* C26: for every stream, after its construction and after every step of
\* nextChunk, ensureLength and createInitialBuffer, 0 <= cursor <=
\* bookText.length; where the cursor has reached the end, the offset the wrap
\* sets it to before it copies lies in that range too.
C26_CursorBounds ==
    /\ 0 <= cursor
    /\ cursor <= Len(bookText)
    /\ cursor >= Len(bookText) =>
          \A start \in pickRandomStartOffset(bookText) :
              0 <= start /\ start <= Len(bookText)

\* The case of C26: a call has copied the text to its very end, the cursor
\* is at bookText.length and the loop goes on.
C26_Witness ==
    /\ bookText # <<>>
    /\ pc = "loop"
    /\ chunk # <<>>
    /\ Len(chunk) < targetChars
    /\ cursor = Len(bookText)

\* A step is an iteration of nextChunk's loop.
IterationStep == pc = "loop" /\ Len(chunk) < targetChars

\* The characters of bookText a step has copied to the chunk.
CopiedByStep ==
    SelectSeq(SubSeq(chunk', Len(chunk) + 1, Len(chunk')), LAMBDA e : e.src # 0)

\* The safe-boundary snaps of the rough offsets 0 .. maxOffset.
SnappedOffsets ==
    {findSafeBoundary(bookText, roughOffset) :
        roughOffset \in 0 .. Max(0, Len(bookText) - MIN_TAIL_GUARD_CHARS)}

\* C27: the cursor changes only in an iteration of nextChunk's loop.  An
\* iteration that finds the cursor short of bookText.length copies from the
\* cursor and advances it by the number of characters copied; one that finds
\* it at bookText.length, and only such a one, resets it first, to the
\* safe-boundary snap of a rough offset of 0 .. maxOffset, maxOffset being
\* max(0, length - tail guard), and copies from there.
C27_CursorMoves ==
    [][/\ cursor' # cursor => IterationStep
       /\ IterationStep =>
            LET copied == CopiedByStep
                from   == IF copied = <<>> THEN cursor' ELSE copied[1].src - 1
            IN  /\ cursor' = from + Len(copied)
                /\ \A i \in 1 .. Len(copied) : copied[i].src = from + i
                /\ IF cursor >= Len(bookText)
                   THEN from \in SnappedOffsets
                   ELSE from = cursor]_vars

\* The case of C27: within one chunk the cursor has reached the end of the
\* text, was reset behind a separator and has advanced by the characters
\* copied since.
C27_Witness ==
    /\ pc = "loop"
    /\ \E i \in 1 .. Len(chunk) - 1 :
          /\ i > 1
          /\ chunk[i - 1].src = Len(bookText)
          /\ chunk[i].src = 0
          /\ chunk[i + 1].src - 1 \in SnappedOffsets
          /\ cursor = chunk[i + 1].src - 1 + (Len(chunk) - i)


(***************************************************************************)
(* findSafeBoundary applied to texts and offsets (SpecBoundary).           *)
(***************************************************************************)
\* Every text, with whitespace at its ends too.
SnapTexts == SeqsUpTo(Chars, MaxTextLen)

\* The offsets of the text, and one on either side, which line 25 clamps.
SnapOffsets(text) == -1 .. Len(text)

InitBoundary ==
    /\ snapText \in SnapTexts
    /\ snapOffset \in SnapOffsets(snapText)
    /\ snapped = <<>>
    /\ statsIdle
    /\ typingIdle
    /\ streamIdle
    /\ loaderIdle
    /\ normIdle
    /\ preloadIdle
    /\ appIdle
    /\ wpmIdle

\* snapped = findSafeBoundary(text, startOffset)
FindSafeBoundary ==
    /\ snapped = <<>>
    /\ snapped' = <<findSafeBoundary(snapText, snapOffset)>>
    /\ UNCHANGED <<snapText, snapOffset, statsVars, typingVars, wpmVars, streamVars, loaderVars,
                   normVars, preloadVars, appVars>>

NextBoundary ==
    \/ FindSafeBoundary

SpecBoundary == InitBoundary /\ [][NextBoundary]_vars

\* The 0-based index is where a word starts: whitespace before it, none at it.
WordStart(index) ==
    /\ 0 < index
    /\ index < Len(snapText)
    /\ IsWhitespace(snapText[index])
    /\ ~IsWhitespace(snapText[index + 1])

\* C28: for every text T and offset O of 0 .. length(T) - 1,
\* findSafeBoundary(T, O) returns 0 or an index I with O <= I < length(T),
\* whitespace at T[I - 1] and none at T[I]; it returns 0 when the walk runs
\* off the end of the text, which it does when no word starts behind O.
C28_SafeBoundary ==
    (snapped # <<>> /\ 0 <= snapOffset /\ snapOffset < Len(snapText)) =>
      /\ \/ snapped[1] = 0
         \/ snapOffset <= snapped[1] /\ WordStart(snapped[1])
      /\ (\A index \in snapOffset + 1 .. Len(snapText) - 1 : ~WordStart(index))
            => snapped[1] = 0

\* The case of C28: from an offset within a word the call has returned the
\* start of the next word.
C28_Witness ==
    /\ snapped # <<>>
    /\ 0 < snapOffset
    /\ snapOffset < Len(snapText)
    /\ ~IsWhitespace(snapText[snapOffset + 1])
    /\ snapped[1] > snapOffset + 1
    /\ WordStart(snapped[1])

\* The walk has run off the end of a text that ends in whitespace.
C28_WitnessOffTheEnd ==
    /\ snapped = <<0>>
    /\ 0 < snapOffset
    /\ snapOffset < Len(snapText)
    /\ IsWhitespace(snapText[Len(snapText)])


(***************************************************************************)
(* The tail guard of pickRandomStartOffset (SpecStream).                   *)
(***************************************************************************)
\* C29: for every book text longer than the tail guard, every offset s that
\* pickRandomStartOffset returns leaves at least MIN_TAIL_GUARD_CHARS
\* characters behind it: length(bookText) - s >= MIN_TAIL_GUARD_CHARS.
C29_TailGuard ==
    Len(bookText) > MIN_TAIL_GUARD_CHARS =>
      \A s \in pickRandomStartOffset(bookText) :
          Len(bookText) - s >= MIN_TAIL_GUARD_CHARS


(***************************************************************************)
(* Superseded preloads (SpecPreload).                                      *)
(***************************************************************************)
\* Construction b was started for the slot, and the slot now holds a later
\* construction: a preloadCorpusSession with another size or the prime after
\* a consume has replaced it.
Superseded(b) ==
    /\ builds[b].origin \in {"preload", "prime"}
    /\ preloadedSessionPromise # 0
    /\ preloadedSessionPromise > b

\* C30: when the pending slot has been replaced by a newer preload, the later
\* settlement of the older construction, success or failure, leaves the slot
\* holding the newer preload.
C30_SupersededLeavesSlot ==
    [][\A b \in DOMAIN builds :
          (/\ Superseded(b)
           /\ builds[b].state = "pending"
           /\ builds'[b].state # "pending")
          => preloadedSessionPromise' = preloadedSessionPromise]_vars


(***************************************************************************)
(* Failed preloads (SpecPreload).                                          *)
(***************************************************************************)
\* The step ends construction b, started by preloadCorpusSession, in failure.
PreloadFails(b) ==
    /\ builds[b].origin = "preload"
    /\ builds[b].state = "pending"
    /\ builds'[b].state # "pending"
    /\ ~builds'[b].session

\* C31: a preload failure is not cached.  When the construction started by
\* preloadCorpusSession fails, the promise its callers hold is rejected and
\* the slot is cleared; the slot never holds a rejected promise, so no
\* preloadCorpusSession call returns one and no
\* consumePreloadedCorpusSession call adopts one: the next call starts a new
\* construction.
C31_PreloadFailureNotCached ==
    [][/\ \A b \in DOMAIN builds :
             PreloadFails(b) => builds'[b].state = "rejected" /\ preloadedSessionPromise' = 0
       /\ Len(preloads') = Len(preloads) + 1
             => builds'[LatestPreload'.returned].state # "rejected"
       /\ Len(consumes') = Len(consumes) + 1
             => LET c == consumes'[Len(consumes')]
                IN  c.adopted # 0 => builds[c.adopted].state # "rejected"
       /\ preloadedSessionPromise' # 0
             => builds'[preloadedSessionPromise'].state # "rejected"]_vars

\* The case of C31: a preload has failed, and a later preloadCorpusSession
\* call with the same size was given a new construction.
C31_Witness ==
    \E i \in DOMAIN preloads : \E j \in DOMAIN preloads :
        /\ i < j
        /\ builds[preloads[i].returned].origin = "preload"
        /\ builds[preloads[i].returned].state = "rejected"
        /\ preloads[j].initialChars = preloads[i].initialChars
        /\ preloads[j].returned > preloads[i].returned
        /\ builds[preloads[j].returned].state = "pending"
        /\ preloadedSessionPromise = preloads[j].returned

(***************************************************************************)
(* The whitespace of a normalized text (SpecNormalize).                    *)
(***************************************************************************)
\* C32: for every raw text the output of normalizeBookText holds no line
\* break, no two consecutive whitespace characters and no whitespace at its
\* ends: every whitespace character of it is a single ASCII space.
C32_WhitespaceCollapsed ==
    normPasses >= 1 =>
      /\ \A i \in DOMAIN normText : normText[i] \notin {CR, LF}
      /\ \A i \in DOMAIN normText : RegexWhitespace(normText[i]) => normText[i] = " "
      /\ \A i \in 1 .. Len(normText) - 1 :
            ~(RegexWhitespace(normText[i]) /\ RegexWhitespace(normText[i + 1]))
      /\ normText # <<>> =>
            ~RegexWhitespace(normText[1]) /\ ~RegexWhitespace(normText[Len(normText)])


(***************************************************************************)
(* SpecChunk: a stream whose consumer makes its first calls, with targets  *)
(* and minimum lengths beyond the length of the book text, so that one     *)
(* call wraps, and wraps again.                                            *)
(***************************************************************************)
\* the largest targetChars and minLength of these calls
MaxTarget == 8
\* the consumer stops calling once its text is this long
MaxShortOut == 2

\* The consumer calls stream.nextChunk(t).
CallNextChunkOf ==
    /\ pc = "idle"
    /\ Len(out) < MaxShortOut
    /\ \E t \in 0 .. MaxTarget :
         /\ targetChars' = t
         /\ chunk' = <<>>
         /\ mode' = "next"
         /\ pc' = "loop"
    /\ UNCHANGED <<bookText, cursor, minLength, currentText, next, out, lastChunk,
                   requests, received, loaderVars, extVars>>

\* The consumer calls stream.ensureLength(out, m).
CallEnsureLengthOf ==
    /\ pc = "idle"
    /\ Len(out) < MaxShortOut
    /\ \E m \in 0 .. MaxTarget :
         /\ minLength' = m
         /\ currentText' = out
         /\ next' = out
         /\ received' = <<>>
         /\ IF Len(out) < m
            THEN /\ targetChars' = charsNeeded(m, out)
                 /\ requests' = {[size |-> charsNeeded(m, out), have |-> Len(out)]}
                 /\ chunk' = <<>>
                 /\ mode' = "ensure"
                 /\ pc' = "loop"
            ELSE /\ requests' = {}
                 /\ UNCHANGED <<targetChars, chunk, mode, pc>>
    /\ UNCHANGED <<bookText, cursor, out, lastChunk, loaderVars, extVars>>

NextChunk ==
    \/ CallNextChunkOf
    \/ CallEnsureLengthOf
    \/ NextChunkLoop
    \/ NextChunkReturn
    \/ EnsureLengthResume

SpecChunk == InitStream /\ [][NextChunk]_vars

\* C33: nextChunk terminates for every book text and every targetChars.  On
\* an empty book text the iteration that is due takes the defensive break
\* with the chunk still empty, and only there is the break taken; on a
\* non-empty text the iteration that is due wraps or copies at least one
\* character and leaves the chunk longer than it found it and no longer than
\* targetChars, so that the loop ends within targetChars iterations.
C33_NextChunkTerminates ==
    /\ pc = "break" => bookText = <<>> /\ chunk = <<>>
    /\ IterationStep =>
         \A start \in pickRandomStartOffset(bookText) :
            LET r == NextChunkIteration(bookText, cursor, chunk, targetChars, start)
            IN  IF bookText = <<>>
                THEN r.break /\ r.chunk = <<>>
                ELSE /\ ~r.break
                     /\ Len(r.chunk) > Len(chunk)
                     /\ Len(r.chunk) <= targetChars
                     /\ r.wrapped \/ r.cursor > cursor

\* The cases of C33: a call on a non-empty text has wrapped twice and has
\* reached its target.
C33_Witness ==
    /\ bookText # <<>>
    /\ pc = "loop"
    /\ Len(chunk) = targetChars
    /\ Cardinality({i \in DOMAIN chunk : chunk[i].src = 0}) >= 2

\* nextChunk on the empty text has left its loop by the break.
C33_WitnessEmpty ==
    /\ bookText = <<>>
    /\ pc = "break"
    /\ targetChars > 0
    /\ chunk = <<>>

\* s is made of contiguous slices of bookText joined by single spaces.
SlicesJoinedBySpaces(s) ==
    /\ \A i \in DOMAIN s :
          IF s[i].src = 0 THEN s[i].c = " "
          ELSE s[i].src \in DOMAIN bookText /\ s[i].c = bookText[s[i].src]
    /\ \A i \in 1 .. Len(s) - 1 :
          /\ (s[i].src # 0 /\ s[i + 1].src # 0) => s[i + 1].src = s[i].src + 1
          /\ ~(s[i].src = 0 /\ s[i + 1].src = 0)

\* C35: for a non-empty book text and any targetChars >= 0,
\* nextChunk(targetChars) returns a string of exactly targetChars characters,
\* never longer, even when a separator is inserted at a wrap, made only of
\* contiguous slices of bookText joined by single spaces; ensureLength
\* therefore calls nextChunk at most once.
C35_ExactChunk ==
    bookText # <<>> =>
      /\ pc # "break"
      /\ pc = "loop" => Len(chunk) <= targetChars /\ SlicesJoinedBySpaces(chunk)
      /\ (pc = "idle" /\ mode = "next") => Len(lastChunk) = targetChars
      /\ (pc = "idle" /\ mode = "ensure" /\ requests # {})
            => Len(lastChunk) = targetChars /\ received = lastChunk
      /\ Cardinality(requests) <= 1

\* The case of C35: the separator of a wrap was the last character the
\* target had room for, and the chunk was returned with exactly targetChars
\* characters.
C35_Witness ==
    /\ bookText # <<>>
    /\ pc = "idle"
    /\ mode = "next"
    /\ Len(lastChunk) = targetChars
    /\ Len(lastChunk) > Len(bookText)
    /\ lastChunk[Len(lastChunk)].src = 0

(***************************************************************************)
(* SpecTyping: one typing screen of the App component.  The session was    *)
(* started (startSession committed a stream and its initial text, or no    *)
(* stream and the fallback text); keystrokes, step-backs and the WPM       *)
(* interval's ticks run against a clock that never goes back, and a new    *)
(* session can be committed.                                               *)
(***************************************************************************)
MaxKeys == 5
MaxSessionRuns == 2
MaxSessionMs == 42000

\* App.jsx:29, 1700 in the source
BUFFER_AHEAD_CHARS == 2
\* App.jsx:30, 4000 in the source
BUFFER_EXTENSION_STEP == 2

\* Faulty variant: one notice is stretched to the length instead of repeated.
FallbackCharsStretched(text) ==
    [i \in 1 .. text.len |-> [c |-> IF i = text.len THEN " " ELSE "x", src |-> 0]]

\* The characters of `${FALLBACK_CORPUS_NOTICE} ` repeated: the notice, then a space.
FallbackChars(text) ==
    [i \in 1 .. text.len |->
        [c |-> IF i % FALLBACK_NOTICE_CHARS = 0 THEN " " ELSE "x", src |-> 0]]

\* A corpus text of the stream, as resetSessionModel's caller describes it.
CorpusText(stream, chars) == [kind |-> "corpus", from |-> stream, len |-> Len(chars)]

\* Books a session streams: the shortest texts loadBookText delivers.
TypingTexts ==
    {t \in StreamTexts : MIN_BOOK_CHARS <= Len(t) /\ Len(t) <= MIN_BOOK_CHARS + 1}

\* Date.now() when the first session is committed.
TypingStart == ROLLING_WINDOW_MS * 4

\* The time between two handlers: less than the rolling window, and not a
\* divisor of the idle reset time, so that ticks fall in the window, between
\* the window and the idle reset, and after it.
ClockSteps == {7000}

\* resetSessionModel, but for its text: cursor, results, live WPM, statistics
\* and the event log.
resetSessionModel ==
    /\ cursorRef' = 0
    /\ typedResultsRef' = <<>>
    /\ liveWpm' = <<>>
    /\ firstTypedAt' = 0
    /\ totalTypedChars' = 0
    /\ correctTypedChars' = 0
    /\ totalWordsTyped' = 0
    /\ lastTypedAt' = 0
    /\ typingEvents' = <<>>
    /\ currentWordRef' = [hasChars |-> FALSE, hasMistake |-> FALSE]

\* The state startSession leaves: a stream and its initial buffer, or no
\* stream and the fallback text.
InitTyping ==
    /\ bookText \in TypingTexts \cup {<<>>}
    /\ IF bookText = <<>>
       THEN /\ cursor = 0
            /\ corpusStreamRef = 0
            /\ targetTextRef = createFallbackText(INITIAL_TEXT_LENGTH)
            /\ targetText = FallbackChars(targetTextRef)
       ELSE \E start \in pickRandomStartOffset(bookText) :
            \E r \in createInitialBuffer(bookText, start, INITIAL_TEXT_LENGTH) :
                /\ cursor = r.cursor
                /\ corpusStreamRef = 1
                /\ targetText = r.text
                /\ targetTextRef = CorpusText(1, r.text)
    /\ cursorRef = 0
    /\ typedResultsRef = <<>>
    /\ liveWpm = <<>>
    /\ firstTypedAt = 0
    /\ totalTypedChars = 0
    /\ correctTypedChars = 0
    /\ totalWordsTyped = 0
    /\ lastTypedAt = 0
    /\ typingEvents = <<>>
    /\ currentWordRef = [hasChars |-> FALSE, hasMistake |-> FALSE]
    /\ handlerRan = "reset"
    /\ expectedFrom = "none"
    /\ clockNow = TypingStart
    /\ rollingWindow = ROLLING_WINDOW_MS
    /\ rolling = [called |-> FALSE, rollingWpm |-> 0, rawWpm |-> 0,
                  hasEventsInWindow |-> FALSE]
    /\ appSource = "App.jsx"
    /\ screen = "typing"
    /\ sessionLoadIdRef = 1
    /\ sessionStartInFlightRef = FALSE
    /\ elapsedRef = 0
    /\ sessionRunId = 1
    /\ preloadTimer = FALSE
    /\ sessionStarts = <<>>
    /\ previousDisplay = <<>>
    /\ display = [called |-> FALSE, displayWpm |-> <<>>, rawWpm |-> 0]
    /\ accuracyIdle
    /\ trimIdle
    /\ boundaryIdle
    /\ pc = "idle"
    /\ mode = "next"
    /\ targetChars = 0
    /\ chunk = <<>>
    /\ minLength = 0
    /\ currentText = <<>>
    /\ next = <<>>
    /\ out = <<>>
    /\ lastChunk = <<>>
    /\ requests = {}
    /\ received = <<>>
    /\ loaderIdle
    /\ normIdle
    /\ preloadIdle

\* What no handler of the typing screen touches.
typingFrame ==
    <<pc, mode, targetChars, chunk, minLength, currentText, next, out, lastChunk,
      requests, received, loaderVars, normVars, preloadVars, appSource,
      sessionLoadIdRef, sessionStartInFlightRef, sessionStarts, rollingWindow, rolling,
      previousDisplay, display, accuracyVars, trimVars, boundaryVars>>

\* Date.now() of a handler: the clock never goes back.
ClockAdvances ==
    \E step \in ClockSteps :
        /\ clockNow + step <= TypingStart + MaxSessionMs
        /\ clockNow' = clockNow + step

\* nextText[currentCursor] ?? ' '
expectedCharacter(nextText, currentCursor) ==
    IF currentCursor < Len(nextText) THEN nextText[currentCursor + 1].c ELSE " "

\* typedResultsRef.current[currentCursor] = isCorrect
SetResult(results, index, value) ==
    [i \in 1 .. Max(Len(results), index + 1) |->
        IF i = index + 1 THEN value
        ELSE IF i <= Len(results) THEN results[i] ELSE "undefined"]

\* WORD_BOUNDARY_PATTERN = /[\s.,!?;:]/
isWordBoundary(character) ==
    IsWhitespace(character) \/ character \in {".", ",", "!", "?", ";", ":"}

\* The word bookkeeping at the end of handleTypeCharacter.
wordAfter(activeWord, typedCharacter, isCorrect) ==
    IF isWordBoundary(typedCharacter)
    THEN [hasChars |-> FALSE, hasMistake |-> FALSE]
    ELSE [hasChars |-> TRUE, hasMistake |-> activeWord.hasMistake \/ ~isCorrect]

\* Faulty variant: the text is extended up to the look-ahead only.
minimumLengthAhead(currentCursor) == currentCursor + BUFFER_AHEAD_CHARS

\* const minimumLength = currentCursor + BUFFER_AHEAD_CHARS + BUFFER_EXTENSION_STEP
minimumLengthOf(currentCursor) ==
    currentCursor + BUFFER_AHEAD_CHARS + BUFFER_EXTENSION_STEP

\* Faulty variant: the text is extended only when the cursor has reached its end.
needsExtensionAtEnd(nextText, currentCursor) == Len(nextText) <= currentCursor

\* nextText.length <= currentCursor + BUFFER_AHEAD_CHARS
needsExtension(nextText, currentCursor) ==
    Len(nextText) <= currentCursor + BUFFER_AHEAD_CHARS

\* handleTypeCharacter(typedCharacter)
HandleTypeCharacter ==
    /\ totalTypedChars < MaxKeys
    /\ ClockAdvances
    /\ \E typedCharacter \in Chars :
       \E extended \in
            IF ~needsExtension(targetText, cursorRef)
            THEN {[cursor |-> cursor, text |-> targetText, ref |-> targetTextRef]}
            ELSE IF corpusStreamRef # 0
            THEN {[cursor |-> r.cursor, text |-> r.text,
                   ref |-> CorpusText(corpusStreamRef, r.text)]
                  : r \in ensureLength(bookText, cursor, targetText,
                                       minimumLengthOf(cursorRef))}
            ELSE {[cursor |-> cursor,
                   text |-> FallbackChars(createFallbackText(minimumLengthOf(cursorRef))),
                   ref |-> createFallbackText(minimumLengthOf(cursorRef))]} :
         LET now == clockNow'
             expected == expectedCharacter(extended.text, cursorRef)
             isCorrect == typedCharacter = expected
         IN  /\ cursor' = extended.cursor
             /\ targetText' = extended.text
             /\ targetTextRef' = extended.ref
             /\ expectedFrom' = IF cursorRef < Len(extended.text) THEN "text" ELSE "default"
             /\ typedResultsRef' = SetResult(typedResultsRef, cursorRef, isCorrect)
             /\ cursorRef' = cursorRef + 1
             /\ totalTypedChars' = totalTypedChars + 1
             /\ correctTypedChars' = correctTypedChars + (IF isCorrect THEN 1 ELSE 0)
             /\ firstTypedAt' = IF firstTypedAt = 0 THEN now ELSE firstTypedAt
             /\ lastTypedAt' = now
             /\ typingEvents' =
                    trimTypingEvents(
                        Append(typingEvents,
                               [t |-> now, chars |-> 1,
                                correctChars |-> IF isCorrect THEN 1 ELSE 0]),
                        now, ROLLING_WINDOW_MS * 3)
             /\ totalWordsTyped' =
                    totalWordsTyped
                    + (IF isWordBoundary(typedCharacter) /\ currentWordRef.hasChars
                       THEN 1 ELSE 0)
             /\ currentWordRef' = wordAfter(currentWordRef, typedCharacter, isCorrect)
    /\ handlerRan' = "type"
    /\ UNCHANGED <<bookText, corpusStreamRef, liveWpm, elapsedRef, screen, sessionRunId,
                   preloadTimer, typingFrame>>

\* handleStepBack()
HandleStepBack ==
    /\ cursorRef > 0
    /\ cursorRef' = cursorRef - 1
    /\ typedResultsRef' = SetResult(typedResultsRef, cursorRef - 1, "undefined")
    /\ handlerRan' = "back"
    /\ UNCHANGED <<clockNow, targetText, targetTextRef, cursor, bookText, corpusStreamRef,
                   liveWpm, firstTypedAt, totalTypedChars, correctTypedChars,
                   totalWordsTyped, lastTypedAt, typingEvents, currentWordRef,
                   expectedFrom, elapsedRef, screen, sessionRunId, preloadTimer,
                   typingFrame>>

\* Faulty variant: the tick passes the retention window to the display.
tickWindowRetention == ROLLING_WINDOW_MS * 3

\* getRollingWpmDisplay's default windowMs, which the tick does not override
tickWindow == ROLLING_WINDOW_MS

\* Faulty variant: the tick leaves the event log as it is.
tickTrimNone(events, now) == events

\* trimTypingEvents(typingEventsRef.current, now, ROLLING_WINDOW_MS * 3)
tickTrim(events, now) == trimTypingEvents(events, now, ROLLING_WINDOW_MS * 3)

\* The callback of the WPM interval: trim, compute the display, set liveWpm.
WpmTick ==
    /\ ClockAdvances
    /\ LET now == clockNow'
           events == tickTrim(typingEvents, now)
           shown == getRollingWpmDisplay(events, now, firstTypedAt, totalTypedChars, lastTypedAt, liveWpm, tickWindow, WPM_WARMUP_MS, WPM_WARMUP_MIN_CHARS, WPM_IDLE_RESET_MS)
       IN  /\ typingEvents' = events
           /\ liveWpm' = shown.displayWpm
    /\ handlerRan' = "tick"
    /\ UNCHANGED <<targetText, targetTextRef, cursor, bookText, corpusStreamRef, cursorRef,
                   typedResultsRef, firstTypedAt, totalTypedChars, correctTypedChars,
                   totalWordsTyped, lastTypedAt, currentWordRef, expectedFrom, elapsedRef,
                   screen, sessionRunId, preloadTimer, typingFrame>>

\* startSession commits the next session: a new stream and its initial
\* buffer, or, when the corpus failed to load, no stream and the fallback text.
CommitNextSession ==
    /\ sessionRunId < MaxSessionRuns
    /\ ClockAdvances
    /\ \E text \in TypingTexts \cup {<<>>} :
        /\ bookText' = text
        /\ IF text = <<>>
           THEN /\ cursor' = 0
                /\ commitSession(0, FallbackText(0))
                /\ targetText' = FallbackChars(targetTextRef')
           ELSE \E start \in pickRandomStartOffset(text) :
                \E r \in createInitialBuffer(text, start, INITIAL_TEXT_LENGTH) :
                    /\ cursor' = r.cursor
                    /\ commitSession(sessionRunId + 1,
                                     CorpusText(sessionRunId + 1, r.text))
                    /\ targetText' = r.text
    /\ resetSessionModel
    /\ handlerRan' = "reset"
    /\ UNCHANGED <<expectedFrom, typingFrame>>

NextTyping ==
    \/ HandleTypeCharacter
    \/ HandleStepBack
    \/ WpmTick
    \/ CommitNextSession

SpecTyping == InitTyping /\ [][NextTyping]_vars

\* C34: the typing event log is time-ascending and holds no event older
\* than three rolling windows before the clock of the last keystroke or
\* tick; right after a session reset it is empty.
C34_EventLogBoundedOrdered ==
    /\ \A i \in 1 .. Len(typingEvents) - 1 : typingEvents[i].t <= typingEvents[i + 1].t
    /\ \A i \in DOMAIN typingEvents :
          typingEvents[i].t >= clockNow - 3 * ROLLING_WINDOW_MS
    /\ handlerRan = "reset" => typingEvents = <<>>

\* A tick dropped the oldest keystrokes and kept the later ones.
C34_Witness ==
    /\ handlerRan = "tick"
    /\ typingEvents # <<>>
    /\ Len(typingEvents) < totalTypedChars

\* A later session was committed, well after the first one.
C34_WitnessReset ==
    /\ handlerRan = "reset"
    /\ sessionRunId > 1
    /\ clockNow > TypingStart + ROLLING_WINDOW_MS

\* C36: within a session the live WPM display goes from a number back to
\* null only at a reset, or at a tick that finds no event in the rolling
\* window and the last keystroke WPM_IDLE_RESET_MS or more ago; and every
\* tick that comes WPM_IDLE_RESET_MS or more after the last keystroke
\* shows null.
C36_NoFlicker ==
    [][/\ (liveWpm # <<>> /\ liveWpm' = <<>>) =>
            \/ handlerRan' = "reset"
            \/ /\ handlerRan' = "tick"
               /\ InWindow' = {}
               /\ clockNow' - lastTypedAt' >= WPM_IDLE_RESET_MS
       /\ (handlerRan' = "tick" /\ clockNow' >= lastTypedAt' + WPM_IDLE_RESET_MS) =>
            liveWpm' = <<>>]_vars

\* Typing stopped and a tick reset the display: the tick that follows a
\* keystroke finds it in the window, so the display was a number before.
C36_Witness ==
    /\ handlerRan = "tick"
    /\ liveWpm = <<>>
    /\ totalTypedChars > 0
    /\ clockNow >= lastTypedAt + WPM_IDLE_RESET_MS

\* A tick held the number: no event in the window, the last keystroke less
\* than WPM_IDLE_RESET_MS ago.
C36_WitnessHold ==
    /\ handlerRan = "tick"
    /\ liveWpm # <<>>
    /\ InWindow = {}

\* A keystroke after the idle reset, and a tick that shows a number again.
C36_WitnessResumed ==
    /\ handlerRan = "tick"
    /\ liveWpm # <<>>
    /\ firstTypedAt + WPM_IDLE_RESET_MS + ROLLING_WINDOW_MS < lastTypedAt

\* C37: after the session reset and after every keystroke and step-back the
\* target text reaches at least BUFFER_AHEAD_CHARS beyond the cursor, and no
\* keystroke was compared with the ' ' default: its expected character was
\* a character of the target text.
C37_BufferAhead ==
    /\ Len(targetText) >= cursorRef + BUFFER_AHEAD_CHARS
    /\ cursorRef < Len(targetText)
    /\ expectedFrom # "default"

\* A keystroke left the text exactly BUFFER_AHEAD_CHARS ahead of the cursor:
\* the next one extends it.
C37_Witness ==
    /\ handlerRan = "type"
    /\ expectedFrom = "text"
    /\ Len(targetText) = cursorRef + BUFFER_AHEAD_CHARS

\* A keystroke extended the text of a stream before it read its character.
C37_WitnessExtended ==
    /\ handlerRan = "type"
    /\ corpusStreamRef # 0
    /\ Len(targetText) > INITIAL_TEXT_LENGTH

\* A step-back on an extended text.
C37_WitnessBack ==
    /\ handlerRan = "back"
    /\ cursorRef > 0
    /\ Len(targetText) > cursorRef + BUFFER_AHEAD_CHARS + 1

\* C38: a keystroke that changes the target text makes it longer and keeps
\* the text it had as a prefix, with a stream and with the fallback text;
\* ticks and step-backs leave the text as it is.
C38_ExtensionKeepsPrefix ==
    [][/\ (handlerRan' = "type" /\ targetText' # targetText) =>
            /\ Len(targetText) < Len(targetText')
            /\ SubSeq(targetText', 1, Len(targetText)) = targetText
       /\ handlerRan' \in {"tick", "back"} => targetText' = targetText]_vars

\* The keystroke at the cursor extended the fallback text to its third notice.
C38_Witness ==
    /\ handlerRan = "type"
    /\ corpusStreamRef = 0
    /\ Len(targetText) = 3 * FALLBACK_NOTICE_CHARS
    /\ cursorRef = Len(targetText) - BUFFER_AHEAD_CHARS - BUFFER_EXTENSION_STEP

\* The keystroke at the cursor had the stream extend its text to minimumLength.
C38_WitnessStream ==
    /\ handlerRan = "type"
    /\ corpusStreamRef # 0
    /\ Len(targetText) > INITIAL_TEXT_LENGTH
    /\ Len(targetText) = cursorRef - 1 + BUFFER_AHEAD_CHARS + BUFFER_EXTENSION_STEP

=============================================================================
